---------------------------- MODULE Spec2Model ----------------------------
(***************************************************************************)
(* JSettlers functional test harness for server startup parameters.        *)
(*                                                                         *)
(* Modelled from src/src/extraTest/python/server/test_startup_params.py    *)
(* (the unittest variant) and src/test/bin/test_func_srv_startup_params.py *)
(* (the script variant).  The two files share _run_and_get_outputs,        *)
(* arg_test and the two-test helpers; they differ in env_ok, in the list   *)
(* form of expected_output_incl and in how main reports the final status.  *)
(*                                                                         *)
(* Time is not measured: "the timeout elapses" is the step with which the  *)
(* timed join gives up, "the child exits" is a step of the child, and any  *)
(* amount of time may pass between two steps.  Strings are sequences of    *)
(* characters; "NL" is the newline and "SP" the space.                     *)
(***************************************************************************)
EXTENDS Integers, Sequences, FiniteSets, TLC

VARIABLES
    \* ---- one call of _run_and_get_outputs ----
    cmd,            \* cmd parameter
    args,           \* the args list after "prep args" (what Popen is given)
    timeout,        \* timeout parameter (0: no limit)
    caller,         \* who called: "direct", "env_ok", "selftest", "arg_test"
    rpc,            \* position of the calling thread inside _run_and_get_outputs
    exc,            \* exception propagating out of the current call ("none" if none)
    wpc,            \* position inside _thread_subproc (worker thread, or inline)
    res_obj,        \* the _Res_Obj shared by the caller and _thread_subproc
    rc,             \* local rc
    result,         \* the returned tuple (rc, stdout, stderr)
    child,          \* the child process: "unborn", "running", "exited"
    childCode,      \* the child's real exit code once it has exited
    childOut,       \* everything the child has written to stdout when it exits
    childErr,       \* everything the child has written to stderr when it exits
    sigterm,        \* a SIGTERM has been delivered to the running child
    termCalls,      \* number of proc.terminate() calls made by this call
    graceDelays,    \* number of time.sleep(1) grace delays taken by this call
    childAtTimeout, \* history: state of the child when the timed join gave up
    desc,           \* processes the child has started: "none", "running", "signalled"
    \* ---- the harness ----
    variant,        \* "script" (test/bin) or "unittest" (extraTest)
    env,            \* the environment env_ok() inspects
    hpc,            \* position of main()
    all_ok,         \* env_ok's local all_ok
    file,           \* jsserver.properties in the temp directory
    tests_failed_count,
    cur,            \* parameters of the arg_test call in progress
    helper,         \* the two-test helper call in progress
    selfNo,         \* test_run_and_get_outputs: number of the test in progress
    log,            \* history: what the run has done so far
    callerArgs,     \* the list object a direct caller passed as args, as it is now
    supplied,       \* history: what that list held when the caller first passed it
    prev,           \* history: the first run of a test case that is run twice
    \* ---- one run of render.py ----
    render_pc,      \* position of render.py: "parse", "loop", "exited"
    opts,           \* what getopt makes of the command line: <<opt, value>> pairs
    dbtypes,        \* global dbtypes (<<>> for None, until -d is accepted)
    infile,         \* global infile (<<>> for None)
    outfile,        \* global outfile (<<>> for None)
    compfile,       \* global compfile (<<>> for None)
    sys_exit,       \* global sys_exit
    world,          \* sys.stdin and sys.stdout ("open" or "closed"), the template text
    opened,         \* history: the files and streams read or opened so far
    written,        \* history: <<name, text>> for every write made so far
    rendered,       \* history: the render_one calls made, in order, and how each ended
    exit_status,    \* the status render.py ended with (None while it runs)
    \* ---- one DummyProtoClient ----
    client_pc,      \* "none", "new" (constructed), "loop" (in auth_and_run), "closed"
    is_observer,    \* self.is_observer
    connected,      \* self.connected
    msg,            \* local msg of auth_and_run
    stream,         \* what the server still sends: the bytes, and how they end
    sent,           \* history: the messages written to the socket, by their type
    treated,        \* history: the messages given to treat(), and whether just read
    last_read,      \* history: how the last read_delimited_message call ended
    \* ---- one call of check_missing_escape ----
    esc_pc,         \* "none", "call" (about to be called), "returned"
    localized_str,  \* parameter localized_str
    idx,            \* the value returned (-1 until the call returns)
    \* ---- one call of check_java_token_values_vs_py ----
    tok_pc,         \* "none", "loop" (the while loop), "after" (past it), "returned"
    java_src,       \* the lines of the file dbh_java_fullpath
    line_num,       \* local line_num: the readline() calls made so far
    state,          \* local state
    saw,            \* locals saw_decl_line, saw_begin_line, saw_all_expected
    java_all_ok,    \* global java_all_ok
    token_dbtype_vals, \* the keys of local token_dbtype_vals
    reported,       \* history: the problems printed
    tok_ret         \* how the call ended: "none", "False", or the exception

runVars == <<cmd, args, timeout, caller, rpc, exc, wpc, res_obj, rc, result,
             child, childCode, childOut, childErr, sigterm, termCalls,
             graceDelays, childAtTimeout, desc>>
renderVars == <<render_pc, opts, dbtypes, infile, outfile, compfile, sys_exit,
                world, opened, written, rendered, exit_status>>
clientVars == <<client_pc, is_observer, connected, msg, stream, sent, treated,
                last_read>>
escVars == <<esc_pc, localized_str, idx>>
tokVars == <<tok_pc, java_src, line_num, state, saw, java_all_ok,
             token_dbtype_vals, reported, tok_ret>>
toolVars == <<renderVars, clientVars, escVars, tokVars>>
startupVars == <<variant, env, hpc, all_ok, file, tests_failed_count, cur,
                 helper, selfNo, log, callerArgs, supplied, prev>>
harnessVars == <<startupVars, toolVars>>
vars == <<runVars, harnessVars>>

----------------------------------------------------------------------------
(* Bounds of the model *)

MaxCases == 2        \* test cases all_tests declares in one run
MaxTextLen == 2      \* length of a captured stream in the output check
MaxExpLen == 2       \* length of a list given as expected_output_incl
MaxOpts == 2         \* options on the command line of render.py
MaxMsgs == 2         \* messages the server sends to a DummyProtoClient
MaxStrLen == 5       \* characters of a string given to check_missing_escape
MaxLines == 2        \* lines of the java file after its well-formed beginning
MaxEofReads == 2     \* readline() calls at end of file that line_num still counts

(* Program constants *)

MAX_TIMEOUT_SEC == 20

----------------------------------------------------------------------------
(* Optional values and strings *)

None == [none |-> TRUE, val |-> 0]
Some(v) == [none |-> FALSE, val |-> v]

NL == "NL"
SP == "SP"
Char == {"a", "b", NL, SP}

RECURSIVE SeqsUpTo(_, _)
SeqsUpTo(S, n) ==
    IF n = 0 THEN {<<>>}
    ELSE LET shorter == SeqsUpTo(S, n - 1)
         IN  shorter \cup {Append(s, x) : s \in {t \in shorter : Len(t) = n - 1}, x \in S}

(* Python: needle in hay *)
IsSubstring(needle, hay) ==
    \E i \in 0..(Len(hay) - Len(needle)) :
        SubSeq(hay, i + 1, i + Len(needle)) = needle

(* Python: text.split("\n"), from left to right *)
RECURSIVE SplitFrom(_, _, _)
SplitFrom(text, i, acc) ==
    IF i > Len(text) THEN <<acc>>
    ELSE IF text[i] = NL THEN <<acc>> \o SplitFrom(text, i + 1, <<>>)
    ELSE SplitFrom(text, i + 1, Append(acc, text[i]))

Split(text) == SplitFrom(text, 1, <<>>)

SeqToSet(s) == {s[i] : i \in 1..Len(s)}

----------------------------------------------------------------------------
(* The child process, as the operating system and the command decide it *)

Cmds == {"java", "sleep", "false", "sh", "/prog_does_not_Exist"}

(* commands that start processes of their own: a shell running a script *)
Spawns(c) == c = "sh"

(* Popen raises OSError when the command cannot be found or executed *)
Launchable(c, e) ==
    CASE c = "/prog_does_not_Exist" -> FALSE
      [] c = "java" -> e.javaOnPath
      [] OTHER -> TRUE

(* exit codes a command ends with when nothing kills it: "java -version"
   succeeds or fails, a server that does not stay up ends with an error *)
NaturalCodes(a) ==
    CASE a[1] = "false" -> {1}
      [] a[1] = "sleep" -> {0}
      [] a = <<"java", "-version">> -> {0, 1}
      [] OTHER -> {1}

(* "If a signal terminated the process, exit code is negative signal number" *)
SigTermCode == 0 - 15

(* what "java -version" writes: a JRE that calls itself java, one that calls
   itself openjdk (both on stderr), or something else; a banner is one
   element of the text *)
VersionBanner == <<"java version">>
OpenJdkBanner == <<"openjdk version">>
VersionOutputs == {[out |-> <<>>, err |-> VersionBanner],
                   [out |-> <<>>, err |-> OpenJdkBanner],
                   [out |-> <<"a">>, err |-> <<>>]}
ChildOutputs == {[out |-> <<>>, err |-> <<>>],
                 [out |-> <<"a", NL>>, err |-> <<"b">>]}

LaunchOutputs(a) ==
    IF a = <<"java", "-version">> THEN VersionOutputs
    ELSE IF a[1] = "java" THEN ChildOutputs
    ELSE {[out |-> <<>>, err |-> <<>>]}

----------------------------------------------------------------------------
(* _run_and_get_outputs *)

NewResObj == [stdout |-> <<>>, stderr |-> <<>>, exit_code |-> None, proc |-> FALSE]

(* "prep args": args.insert(0, cmd), or [cmd] when args is empty *)
PrepArgs(c, a) == IF Len(a) > 0 THEN <<c>> \o a ELSE <<c>>

(* entry of _run_and_get_outputs up to the timed join, or up to the inline
   call of _thread_subproc *)
RunEnter(c, a, t, who) ==
    /\ cmd' = c
    /\ args' = PrepArgs(c, a)
    /\ timeout' = t
    /\ caller' = who
    /\ res_obj' = NewResObj
    /\ rpc' = IF t # 0 THEN "join" ELSE "inline"
    /\ wpc' = "popen"
    /\ exc' = "none"
    /\ rc' = None
    /\ result' = [rc |-> None, stdout |-> <<>>, stderr |-> <<>>]
    /\ child' = "unborn"
    /\ childCode' = None
    /\ childOut' = <<>>
    /\ childErr' = <<>>
    /\ sigterm' = FALSE
    /\ termCalls' = 0
    /\ graceDelays' = 0
    /\ childAtTimeout' = "n/a"
    /\ desc' = "none"

(* the caller has taken the result (or the exception): the locals of the
   call are gone, and the model follows its worker and its child no further *)
RunLeave(e) ==
    /\ cmd' = "java"
    /\ args' = <<>>
    /\ timeout' = 0
    /\ caller' = "direct"
    /\ rpc' = "idle"
    /\ exc' = e
    /\ wpc' = "none"
    /\ res_obj' = NewResObj
    /\ rc' = None
    /\ result' = [rc |-> None, stdout |-> <<>>, stderr |-> <<>>]
    /\ child' = "unborn"
    /\ childCode' = None
    /\ childOut' = <<>>
    /\ childErr' = <<>>
    /\ sigterm' = FALSE
    /\ termCalls' = 0
    /\ graceDelays' = 0
    /\ childAtTimeout' = "n/a"
    /\ desc' = "none"

(* subprocess.Popen(...) succeeds: the child is running *)
Popen_ok ==
    /\ wpc = "popen"
    /\ Launchable(cmd, env)
    /\ child' = "running"
    /\ desc' = IF Spawns(cmd) THEN "running" ELSE "none"
    /\ wpc' = "setproc"
    /\ UNCHANGED <<cmd, args, timeout, caller, rpc, exc, res_obj, rc, result,
                   childCode, childOut, childErr, sigterm, termCalls,
                   graceDelays, childAtTimeout>>
    /\ UNCHANGED harnessVars

(* subprocess.Popen(...) raises OSError.  Inline, the exception leaves
   _run_and_get_outputs; in the worker thread it ends the thread only. *)
PopenRaises ==
    IF timeout = 0
    THEN /\ rpc' = "raised" /\ exc' = "OSError" /\ wpc' = "died"
    ELSE /\ wpc' = "died" /\ UNCHANGED <<rpc, exc>>

Popen_fail ==
    /\ wpc = "popen"
    /\ ~Launchable(cmd, env)
    /\ PopenRaises
    /\ UNCHANGED <<desc, cmd, args, timeout, caller, res_obj, rc, result, child,
                   childCode, childOut, childErr, sigterm, termCalls,
                   graceDelays, childAtTimeout>>
    /\ UNCHANGED harnessVars

(* results_obj.proc = proc *)
SetProc ==
    /\ wpc = "setproc"
    /\ res_obj' = [res_obj EXCEPT !.proc = TRUE]
    /\ wpc' = "communicate"
    /\ UNCHANGED <<desc, cmd, args, timeout, caller, rpc, exc, rc, result, child,
                   childCode, childOut, childErr, sigterm, termCalls,
                   graceDelays, childAtTimeout>>
    /\ UNCHANGED harnessVars

(* proc.communicate() returns once the child has exited and its pipes are
   at end-of-file; results_obj.stdout is stored first *)
Communicate ==
    /\ wpc = "communicate"
    /\ child = "exited"
    /\ res_obj' = [res_obj EXCEPT !.stdout = childOut]
    /\ wpc' = "setstderr"
    /\ UNCHANGED <<desc, cmd, args, timeout, caller, rpc, exc, rc, result, child,
                   childCode, childOut, childErr, sigterm, termCalls,
                   graceDelays, childAtTimeout>>
    /\ UNCHANGED harnessVars

SetStderr ==
    /\ wpc = "setstderr"
    /\ res_obj' = [res_obj EXCEPT !.stderr = childErr]
    /\ wpc' = "setexit"
    /\ UNCHANGED <<desc, cmd, args, timeout, caller, rpc, exc, rc, result, child,
                   childCode, childOut, childErr, sigterm, termCalls,
                   graceDelays, childAtTimeout>>
    /\ UNCHANGED harnessVars

(* the exit code _thread_subproc records: proc.returncode *)
(* a worker that records success whatever the child's exit code was *)
RecordedCode_AlwaysZero == Some(0)

RecordedCode == childCode

(* results_obj.exit_code = proc.returncode; _thread_subproc returns *)
SetExitCode ==
    /\ wpc = "setexit"
    /\ res_obj' = [res_obj EXCEPT !.exit_code = RecordedCode]
    /\ wpc' = "done"
    /\ UNCHANGED <<desc, cmd, args, timeout, caller, rpc, exc, rc, result, child,
                   childCode, childOut, childErr, sigterm, termCalls,
                   graceDelays, childAtTimeout>>
    /\ UNCHANGED harnessVars

(* the child ends by itself, having written what it had to write *)
ChildExits ==
    /\ child = "running"
    /\ \E c \in NaturalCodes(args) : childCode' = Some(c)
    /\ \E o \in LaunchOutputs(args) :
          /\ childOut' = o.out
          /\ childErr' = o.err
    /\ child' = "exited"
    /\ UNCHANGED <<desc, cmd, args, timeout, caller, rpc, exc, wpc, res_obj, rc,
                   result, sigterm, termCalls, graceDelays, childAtTimeout>>
    /\ UNCHANGED harnessVars

(* the child is ended by the SIGTERM it was sent *)
ChildTerminated ==
    /\ child = "running"
    /\ sigterm
    /\ childCode' = Some(SigTermCode)
    /\ \E o \in LaunchOutputs(args) :
          /\ childOut' = o.out
          /\ childErr' = o.err
    /\ child' = "exited"
    /\ UNCHANGED <<desc, cmd, args, timeout, caller, rpc, exc, wpc, res_obj, rc,
                   result, sigterm, termCalls, graceDelays, childAtTimeout>>
    /\ UNCHANGED harnessVars

WorkerFinished == wpc \in {"done", "died"}

(* "no timeout required: run it in our own thread": _thread_subproc has
   returned, rc = res_obj.exit_code *)
InlineDone ==
    /\ rpc = "inline"
    /\ wpc = "done"
    /\ rc' = res_obj.exit_code
    /\ rpc' = "return"
    /\ UNCHANGED <<desc, cmd, args, timeout, caller, exc, wpc, res_obj, result,
                   child, childCode, childOut, childErr, sigterm, termCalls,
                   graceDelays, childAtTimeout>>
    /\ UNCHANGED harnessVars

(* proc_thread.join(timeout) returns because the worker thread has ended *)
JoinCompletes ==
    /\ rpc = "join"
    /\ WorkerFinished
    /\ rpc' = "joined"
    /\ UNCHANGED <<desc, cmd, args, timeout, caller, exc, wpc, res_obj, rc, result,
                   child, childCode, childOut, childErr, sigterm, termCalls,
                   graceDelays, childAtTimeout>>
    /\ UNCHANGED harnessVars

(* when the timed join may give up: the timeout has elapsed and the worker
   thread has not ended *)
JoinMayTimeOut == ~WorkerFinished

(* proc_thread.join(timeout) returns because the timeout has elapsed *)
JoinTimesOut ==
    /\ rpc = "join"
    /\ JoinMayTimeOut
    /\ rpc' = "joined"
    /\ childAtTimeout' = child
    /\ UNCHANGED <<desc, cmd, args, timeout, caller, exc, wpc, res_obj, rc, result,
                   child, childCode, childOut, childErr, sigterm, termCalls,
                   graceDelays>>
    /\ UNCHANGED harnessVars

(* a caller that takes the timeout branch whatever the thread does *)
is_alive_Always == TRUE

(* proc_thread.is_alive() *)
is_alive == ~WorkerFinished

(* if proc_thread.is_alive(): ... else: rc = res_obj.exit_code *)
CheckAlive ==
    /\ rpc = "joined"
    /\ IF is_alive
       THEN /\ rpc' = "terminate" /\ UNCHANGED rc
       ELSE /\ rpc' = "return" /\ rc' = res_obj.exit_code
    /\ UNCHANGED <<desc, cmd, args, timeout, caller, exc, wpc, res_obj, result,
                   child, childCode, childOut, childErr, sigterm, termCalls,
                   graceDelays, childAtTimeout>>
    /\ UNCHANGED harnessVars

(* a terminate() that signals the whole process group of the child *)
TerminateTargets_Group == {"child", "descendants"}

(* whom res_obj.proc.terminate() signals: Popen.terminate() sends SIGTERM to
   the pid of the child; Popen was given no new session or process group *)
TerminateTargets == {"child"}

(* a timeout branch that hands back whatever the worker has recorded *)
TimedOutCode_Recorded == res_obj.exit_code

(* "rc = None   # time.sleep may overwrite proc.returncode/res_obj.exit_code" *)
TimedOutCode == None

(* res_obj.proc.terminate(): AttributeError when res_obj.proc is still None;
   otherwise SIGTERM to the child (an OSError for a child that is gone is
   caught), then rc = None *)
Terminate ==
    /\ rpc = "terminate"
    /\ IF res_obj.proc
       THEN /\ termCalls' = termCalls + 1
            /\ sigterm' = (sigterm \/ child = "running")
            /\ desc' = IF "descendants" \in TerminateTargets /\ desc = "running"
                       THEN "signalled" ELSE desc
            /\ rc' = TimedOutCode
            /\ rpc' = "sleep"
            /\ UNCHANGED exc
       ELSE /\ rpc' = "raised"
            /\ exc' = "AttributeError"
            /\ UNCHANGED <<termCalls, sigterm, rc, desc>>
    /\ UNCHANGED <<cmd, args, timeout, caller, wpc, res_obj, result, child,
                   childCode, childOut, childErr, graceDelays, childAtTimeout>>
    /\ UNCHANGED harnessVars

(* time.sleep(1) is over *)
GraceDelay ==
    /\ rpc = "sleep"
    /\ graceDelays' = graceDelays + 1
    /\ rpc' = "return"
    /\ UNCHANGED <<desc, cmd, args, timeout, caller, exc, wpc, res_obj, rc, result,
                   child, childCode, childOut, childErr, sigterm, termCalls,
                   childAtTimeout>>
    /\ UNCHANGED harnessVars

(* return(rc, res_obj.stdout, res_obj.stderr) *)
Return ==
    /\ rpc = "return"
    /\ result' = [rc |-> rc, stdout |-> res_obj.stdout, stderr |-> res_obj.stderr]
    /\ rpc' = "returned"
    /\ UNCHANGED <<desc, cmd, args, timeout, caller, exc, wpc, res_obj, rc, child,
                   childCode, childOut, childErr, sigterm, termCalls,
                   graceDelays, childAtTimeout>>
    /\ UNCHANGED harnessVars

RunNext ==
    \/ Popen_ok
    \/ Popen_fail
    \/ SetProc
    \/ Communicate
    \/ SetStderr
    \/ SetExitCode
    \/ ChildExits
    \/ ChildTerminated
    \/ InlineDone
    \/ JoinCompletes
    \/ JoinTimesOut
    \/ CheckAlive
    \/ Terminate
    \/ GraceDelay
    \/ Return


----------------------------------------------------------------------------
(* Values of the harness *)

FNAME_JSSERVER_JAR == "JSettlersServer.jar"

NoFile == [exists |-> FALSE, text |-> <<>>]

ExpNone == [kind |-> "none", str |-> <<>>, list |-> <<>>]
ExpStr(t) == [kind |-> "str", str |-> t, list |-> <<>>]
ExpList(l) == [kind |-> "list", str |-> <<>>, list |-> l]

PropsNone == [none |-> TRUE, lines |-> <<>>]
Props(l) == [none |-> FALSE, lines |-> l]

NoCall == [should_startup |-> FALSE, propsfile_contents |-> PropsNone,
           expected_output_incl |-> ExpNone]
(* helper.rets holds what the helper's tests have returned so far, and
   helper.failedBefore what tests_failed_count was when the helper was called *)
NoHelper == [kind |-> "none", second |-> NoCall, cmdline |-> <<>>, rets |-> <<>>,
             failedBefore |-> 0]

(* log.touched says the harness has run code that writes or removes
   jsserver.properties (setup, the file branch of arg_test, cleanup);
   log.status is the exit status of the harness; log.finished says main ran
   to its end; log.lastRet is the value the arg_test call that has just
   returned gave, and log.consulted whether it looked for the expected output;
   log.helperRet is the value a two-test helper gave when that call was the
   helper's second test *)
NotShown == [shown |-> FALSE, text |-> <<>>]
Shown(t) == [shown |-> TRUE, text |-> t]

(* what an arg_test call prints from its verdict line on *)
NothingPrinted == [verdictLines |-> <<>>, expected |-> FALSE, stdout |-> NotShown,
                   stderr |-> NotShown, contents |-> NotShown]

EmptyLog == [setup |-> FALSE, touched |-> FALSE, cases |-> 0, calls |-> 0,
             runs |-> 0, okLines |-> 0, failLines |-> 0, returnedFalse |-> 0,
             lastRet |-> "none", consulted |-> FALSE, selfFail |-> FALSE,
             finished |-> FALSE, status |-> None, printed |-> NothingPrinted,
             env |-> {}, helperRet |-> "none"]

NoDecl == [kind |-> "none", should |-> FALSE, cmdline |-> <<>>,
           props |-> PropsNone, exp |-> ExpNone, opt |-> "NT=t"]
NoResult == [rc |-> None, stdout |-> <<>>, stderr |-> <<>>]
NoPrev == [n |-> 0, decl |-> NoDecl, args |-> <<>>, file |-> NoFile,
           result |-> NoResult, ret |-> "none"]

GoodEnv == [javaOnPath |-> TRUE, startupDir |-> TRUE, tempDir |-> TRUE,
            propsIsFile |-> TRUE,
            jar |-> TRUE, port |-> "refused"]

(* render.py has not been started *)
IdleRender ==
    /\ render_pc = "none"
    /\ opts = <<>>
    /\ dbtypes = <<>>
    /\ infile = <<>>
    /\ outfile = <<>>
    /\ compfile = <<>>
    /\ sys_exit = 0
    /\ world = [stdin |-> "open", stdout |-> "open", template |-> <<>>]
    /\ opened = {}
    /\ written = {}
    /\ rendered = <<>>
    /\ exit_status = None

(* no DummyProtoClient has been constructed *)
IdleClient ==
    /\ client_pc = "none"
    /\ is_observer = FALSE
    /\ connected = FALSE
    /\ msg = [who |-> "none", data |-> <<>>]
    /\ stream = [bytes |-> <<>>, end |-> "eof"]
    /\ sent = <<>>
    /\ treated = <<>>
    /\ last_read = "none"

(* check_missing_escape has not been called *)
IdleEscape ==
    /\ esc_pc = "none"
    /\ localized_str = <<>>
    /\ idx = -1

(* check_java_token_values_vs_py has not been called *)
IdleTokens ==
    /\ tok_pc = "none"
    /\ java_src = <<>>
    /\ line_num = 0
    /\ state = ""
    /\ saw = [decl_line |-> FALSE, begin_line |-> FALSE, all_expected |-> FALSE]
    /\ java_all_ok = TRUE
    /\ token_dbtype_vals = {}
    /\ reported = {}
    /\ tok_ret = "none"

IdleTools == IdleRender /\ IdleClient /\ IdleEscape /\ IdleTokens

IdleRun ==
    /\ cmd = "java"
    /\ args = <<>>
    /\ timeout = 0
    /\ caller = "direct"
    /\ rpc = "idle"
    /\ exc = "none"
    /\ wpc = "none"
    /\ res_obj = NewResObj
    /\ rc = None
    /\ result = [rc |-> None, stdout |-> <<>>, stderr |-> <<>>]
    /\ child = "unborn"
    /\ childCode = None
    /\ childOut = <<>>
    /\ childErr = <<>>
    /\ sigterm = FALSE
    /\ termCalls = 0
    /\ graceDelays = 0
    /\ childAtTimeout = "n/a"
    /\ desc = "none"

IdleHarness ==
    /\ variant = "script"
    /\ hpc = "none"
    /\ all_ok = TRUE
    /\ file = NoFile
    /\ tests_failed_count = 0
    /\ cur = NoCall
    /\ helper = NoHelper
    /\ selfNo = 0
    /\ log = EmptyLog
    /\ callerArgs = <<>>
    /\ supplied = <<>>
    /\ prev = NoPrev

----------------------------------------------------------------------------
(* A single call of _run_and_get_outputs, for any command and timeout *)

DirectArgs == {<<>>, <<"1">>, <<"-version">>, <<"-jar", FNAME_JSSERVER_JAR>>}
DirectTimeouts == {0, 3, MAX_TIMEOUT_SEC}

InitRun ==
    /\ IdleRun
    /\ IdleHarness
    /\ IdleTools
    /\ env \in {[GoodEnv EXCEPT !.javaOnPath = b] : b \in BOOLEAN}

(* the caller's list object after "prep args": args.insert(0, cmd) changes
   the list the caller passed; "args = [cmd, ]" binds the local name to a
   new list and leaves the caller's (empty) list alone *)
CallerListAfter(c, a) == IF Len(a) > 0 THEN <<c>> \o a ELSE a

DirectCall ==
    /\ rpc = "idle"
    /\ hpc = "none"
    /\ \E c \in Cmds, a \in DirectArgs, t \in DirectTimeouts :
          /\ RunEnter(c, a, t, "direct")
          /\ supplied' = a
          /\ callerArgs' = CallerListAfter(c, a)
    /\ UNCHANGED <<prev, toolVars, variant, env, hpc, all_ok, file, tests_failed_count,
                   cur, helper, selfNo, log>>

(* the caller runs the same command again with the list it still holds *)
CallAgain ==
    /\ rpc = "returned"
    /\ caller = "direct"
    /\ hpc = "none"
    /\ RunEnter(cmd, callerArgs, timeout, "again")
    /\ callerArgs' = CallerListAfter(cmd, callerArgs)
    /\ UNCHANGED <<supplied, prev, toolVars, variant, env, hpc, all_ok, file,
                   tests_failed_count, cur, helper, selfNo, log>>

NextTwice == DirectCall \/ CallAgain \/ RunNext

SpecTwice == InitRun /\ [][NextTwice]_vars

NextRun == DirectCall \/ RunNext

SpecRun == InitRun /\ [][NextRun]_vars

----------------------------------------------------------------------------
(* env_ok *)

(* the check of the current directory against EXPECTED_STARTUP_DIR is made
   by the unittest variant only.  os.getcwd() gives a non-empty path or
   raises, so the two "if (not cwd): return False" are never taken *)
StartupDirOk(v, e) == v = "script" \/ e.startupDir

(* the checks of paths and files, before "java -version" is run *)
PathsOk(v, e) == StartupDirOk(v, e) /\ e.tempDir /\ e.propsIsFile /\ e.jar

(* the print_err messages of the checks of paths and files, by what they
   are about *)
PathReports(v, e) ==
    {c \in {"startupDir"} : ~StartupDirOk(v, e)}
      \cup {c \in {"tempDir"} : ~e.tempDir}
      \cup {c \in {"propsIsFile"} : ~e.propsIsFile}
      \cup {c \in {"jar"} : ~e.jar}

EnvOkBegin ==
    /\ hpc = "env_ok"
    /\ all_ok' = PathsOk(variant, env)
    /\ log' = [log EXCEPT !.env = PathReports(variant, env)]
    /\ RunEnter("java", <<"-version">>, 0, "env_ok")
    /\ hpc' = "env_java"
    /\ UNCHANGED <<callerArgs, supplied, prev, toolVars, variant, env, file, tests_failed_count, cur, helper, selfNo>>

(* re.search("(openjdk|java) version", str(stdout)+" "+str(stderr), re.I);
   the script variant searches for "java version" only *)
HasVersionString(v, out, err) ==
    \/ IsSubstring(VersionBanner, out \o <<SP>> \o err)
    \/ v = "unittest" /\ IsSubstring(OpenJdkBanner, out \o <<SP>> \o err)

JavaOk ==
    IF rpc = "raised" THEN FALSE
    ELSE result.rc = Some(0)
           /\ HasVersionString(variant, result.stdout, result.stderr)

(* s.connect(('127.0.0.1', 8880)): a connection means a server is running;
   IOError means the port is free; any other exception fails the check *)
(* a probe that takes a server answering on the port for a free port *)
PortOk_AnythingButError(e) == e.port # "error"

PortOk(e) == e.port = "refused"

(* the print_err messages of the two last checks *)
LaterReports(javaOk, e) ==
    {c \in {"java"} : ~javaOk} \cup {c \in {"port"} : ~PortOk(e)}

EnvOkEnd ==
    /\ hpc = "env_java"
    /\ caller = "env_ok"
    /\ rpc \in {"returned", "raised"}
    /\ all_ok' = (all_ok /\ JavaOk /\ PortOk(env))
    /\ log' = [log EXCEPT !.env = @ \cup LaterReports(JavaOk, env)]
    /\ hpc' = "env_done"
    /\ RunLeave("none")
    /\ UNCHANGED <<callerArgs, supplied, prev, toolVars, variant, env, file, tests_failed_count, cur, helper, selfNo>>

----------------------------------------------------------------------------
(* main, first part: "if not env_ok(): ... sys.exit(1)", setup() *)

(* a main that ignores the result of env_ok() *)
EnvGate_Ignored(ok) == TRUE

(* whether main goes on after env_ok() *)
EnvGate(ok) == ok

MainEnvFail ==
    /\ hpc = "env_done"
    /\ ~EnvGate(all_ok)
    /\ log' = [log EXCEPT !.status = Some(1)]
    /\ hpc' = "exited"
    /\ UNCHANGED runVars
    /\ UNCHANGED <<callerArgs, supplied, prev, toolVars, variant, env, all_ok, file, tests_failed_count, cur, helper, selfNo>>

(* os.remove(FNAME_JSSERVER_PROPS) if it exists *)
RemoveFile(lg) ==
    /\ file' = NoFile
    /\ log' = [lg EXCEPT !.touched = TRUE]

(* setup(), then "if (os.name == 'posix'): test_run_and_get_outputs()" *)
MainSetup ==
    /\ hpc = "env_done"
    /\ EnvGate(all_ok)
    /\ RemoveFile([log EXCEPT !.setup = TRUE])
    /\ \E posix \in BOOLEAN :
          /\ hpc' = IF posix THEN "selftest" ELSE "all_tests"
          /\ selfNo' = IF posix THEN 1 ELSE 0
    /\ UNCHANGED runVars
    /\ UNCHANGED <<callerArgs, supplied, prev, toolVars, variant, env, all_ok, tests_failed_count, cur, helper>>

----------------------------------------------------------------------------
(* test_run_and_get_outputs *)

SelfCmd(n) ==
    CASE n = 1 -> [cmd |-> "sleep", args |-> <<"1">>, timeout |-> 0]
      [] n = 2 -> [cmd |-> "sleep", args |-> <<"5">>, timeout |-> 3]
      [] n = 3 -> [cmd |-> "false", args |-> <<>>, timeout |-> 0]
      [] OTHER -> [cmd |-> "/prog_does_not_Exist", args |-> <<>>, timeout |-> 0]

SelftestCall ==
    /\ hpc = "selftest"
    /\ RunEnter(SelfCmd(selfNo).cmd, SelfCmd(selfNo).args, SelfCmd(selfNo).timeout, "selftest")
    /\ hpc' = "selftest_wait"
    /\ UNCHANGED <<callerArgs, supplied, prev, toolVars, variant, env, all_ok, file, tests_failed_count, cur, helper, selfNo, log>>

(* the res argument of print_result for test n *)
SelfRes(n) ==
    CASE n = 1 -> rpc = "returned" /\ result.rc = Some(0)
      [] n = 2 -> rpc = "returned" /\ result.rc = None
      [] n = 3 -> rpc = "returned" /\ result.rc # Some(0)
      [] OTHER -> rpc = "raised" /\ exc = "OSError"

(* only test 4 is inside try/except OSError *)
SelfCaught(n) == n = 4 /\ exc = "OSError"

SelftestResult ==
    /\ hpc = "selftest_wait"
    /\ caller = "selftest"
    /\ rpc = "returned" \/ (rpc = "raised" /\ SelfCaught(selfNo))
    /\ log' = [log EXCEPT !.selfFail = @ \/ ~SelfRes(selfNo)]
    /\ hpc' = IF selfNo = 4 THEN "all_tests" ELSE "selftest"
    /\ selfNo' = IF selfNo = 4 THEN 0 ELSE selfNo + 1
    /\ RunLeave("none")
    /\ UNCHANGED <<callerArgs, supplied, prev, toolVars, variant, env, all_ok, file, tests_failed_count, cur, helper>>

----------------------------------------------------------------------------
(* arg_test *)

(* a guard that only knows the string form of expected_output_incl *)
Rejects_StringOnly(should, exp) == should /\ exp.kind = "str"

(* "if should_startup and (expected_output_incl is not None): raise ValueError" *)
Rejects(should, exp) == should /\ exp.kind # "none"

(* for line in propsfile_contents: pf.write(line); pf.write("\n") *)
RECURSIVE WriteLines(_)
WriteLines(lines) ==
    IF lines = <<>> THEN <<>>
    ELSE <<Head(lines), NL>> \o WriteLines(Tail(lines))

(* an arg_test that opens jsserver.properties for appending *)
FileAfter_Appends(props) ==
    IF props.none THEN NoFile
    ELSE [exists |-> TRUE, text |-> file.text \o WriteLines(props.lines)]

(* an arg_test that does not open the file when it has no line to write *)
FileAfter_EmptyIsLeftAlone(props) ==
    IF props.none THEN NoFile
    ELSE IF props.lines = <<>> THEN file
    ELSE [exists |-> TRUE, text |-> WriteLines(props.lines)]

(* an arg_test that leaves an existing file alone when the case has none *)
FileAfter_KeepsOld(props) ==
    IF props.none THEN file
    ELSE [exists |-> TRUE, text |-> WriteLines(props.lines)]

(* the jsserver.properties branch of arg_test: write the file, or remove it *)
FileAfter(props) ==
    IF props.none THEN NoFile
    ELSE [exists |-> TRUE, text |-> WriteLines(props.lines)]


(* args = ["-jar", jar]; args.extend(cmdline_params.split()).  cmdline_params
   is held as the sequence of its whitespace-separated words. *)
ServerArgs(cmdline) == <<"-jar", FNAME_JSSERVER_JAR>> \o cmdline

(* arg_test from its entry to the call of _run_and_get_outputs *)
ArgTestBegin(should, cmdline, props, exp, lg) ==
    /\ cur' = [should_startup |-> should, propsfile_contents |-> props,
               expected_output_incl |-> exp]
    /\ IF Rejects(should, exp)
       THEN /\ exc' = "ValueError"
            /\ hpc' = "raised"
            /\ log' = [lg EXCEPT !.calls = @ + 1]
            /\ UNCHANGED file
            /\ UNCHANGED <<desc, cmd, args, timeout, caller, rpc, wpc, res_obj, rc,
                           result, child, childCode, childOut, childErr,
                           sigterm, termCalls, graceDelays, childAtTimeout>>
       ELSE /\ file' = FileAfter(props)
            /\ log' = [lg EXCEPT !.calls = @ + 1, !.runs = @ + 1,
                                 !.touched = TRUE,
                                 !.lastRet = "none", !.consulted = FALSE,
                                 !.printed = NothingPrinted,
                                 !.helperRet = "none"]
            /\ RunEnter("java", ServerArgs(cmdline), MAX_TIMEOUT_SEC, "arg_test")
            /\ hpc' = "arg_test"

(* the loop over the output lines: every line found in the set is removed *)
RECURSIVE RemoveSeen(_, _)
RemoveSeen(lines, set) ==
    IF lines = <<>> THEN set
    ELSE RemoveSeen(Tail(lines),
                    IF Head(lines) \in set THEN set \ {Head(lines)} ELSE set)

(* the list form joined like the string form, with a space *)
JoinedForLines_Space(out, err) == out \o <<SP>> \o err

(* what the list form splits into lines *)
JoinedForLines(out, err) == out \o <<NL>> \o err

(* what the string form searches *)
JoinedForSearch(out, err) == out \o <<SP>> \o err

(* output_ok *)
OutputOk(exp, out, err) ==
    IF exp.kind = "list"
    THEN RemoveSeen(Split(JoinedForLines(out, err)), SeqToSet(exp.list)) = {}
    ELSE IsSubstring(exp.str, JoinedForSearch(out, err))

(* did_startup *)
DidStartup(r) == r.rc = None

(* "(expected_output_incl is not None) and not did_startup" *)
Consults(exp, did) == exp.kind # "none" /\ ~did

(* a verdict that never looks at the output *)
ArgTestRet_StartupOnly(should, did, exp, out, err) == should = did

(* ret *)
ArgTestRet(should, did, exp, out, err) ==
    /\ should = did
    /\ IF Consults(exp, did) THEN OutputOk(exp, out, err) ELSE TRUE

(* a counter that counts every case *)
FailedCountAfter_EveryCase(ret, n) == n + 1

(* an arg_test that prints the captured stdout under both headings *)
PrintedAtEnd_StdoutTwice(ret, consults, out, err, props) ==
    IF ret THEN [NothingPrinted EXCEPT !.verdictLines = <<"-> ok">>]
    ELSE [verdictLines |-> <<"-> FAIL">>, expected |-> consults,
          stdout |-> Shown(out), stderr |-> Shown(out),
          contents |-> IF props.none THEN NotShown ELSE Shown(props.lines)]

(* "if ret: print(prn_startup + " -> ok")" and the else branch: the FAIL
   line, EXPECTED, STDOUT, STDERR and the jsserver.properties contents *)
PrintedAtEnd(ret, consults, out, err, props) ==
    IF ret THEN [NothingPrinted EXCEPT !.verdictLines = <<"-> ok">>]
    ELSE [verdictLines |-> <<"-> FAIL">>, expected |-> consults,
          stdout |-> Shown(out), stderr |-> Shown(err),
          contents |-> IF props.none THEN NotShown ELSE Shown(props.lines)]

(* "if ret: ... else: tests_failed_count += 1" *)
FailedCountAfter(ret, n) == IF ret THEN n ELSE n + 1

(* a helper that returns what its second test returned *)
HelperRet_SecondOnly(first, second) == second

(* "return all([arg_test(...), arg_test(...)])" *)
HelperRet(first, second) == first /\ second

(* arg_test from the return of _run_and_get_outputs to its own return; a
   two-test helper then goes on to its second test or returns.  When a test
   case is being run twice, its first run is recorded in prev. *)
ArgTestEnd ==
    /\ hpc = "arg_test"
    /\ caller = "arg_test"
    /\ rpc = "returned"
    /\ LET did == DidStartup(result)
           ret == ArgTestRet(cur.should_startup, did, cur.expected_output_incl,
                             result.stdout, result.stderr)
       IN  /\ tests_failed_count' = FailedCountAfter(ret, tests_failed_count)
           /\ log' = [log EXCEPT !.okLines = IF ret THEN @ + 1 ELSE @,
                                 !.failLines = IF ret THEN @ ELSE @ + 1,
                                 !.returnedFalse = IF ret THEN @ ELSE @ + 1,
                                 !.lastRet = IF ret THEN "True" ELSE "False",
                                 !.consulted = Consults(cur.expected_output_incl, did),
                                 !.printed = PrintedAtEnd(ret,
                                     Consults(cur.expected_output_incl, did),
                                     result.stdout, result.stderr,
                                     cur.propsfile_contents),
                                 !.helperRet =
                                     IF helper.kind # "none" /\ helper.rets # <<>>
                                     THEN (IF HelperRet(helper.rets[1], ret)
                                           THEN "True" ELSE "False")
                                     ELSE "none"]
           /\ helper' = IF helper.kind # "none" /\ helper.rets = <<>>
                        THEN [helper EXCEPT !.rets = <<ret>>]
                        ELSE NoHelper
           /\ prev' = IF prev.n = 1
                      THEN [prev EXCEPT !.args = args, !.file = file,
                                        !.result = result,
                                        !.ret = IF ret THEN "True" ELSE "False"]
                      ELSE prev
    /\ hpc' = IF helper.kind # "none" /\ helper.rets = <<>>
              THEN "helper_second" ELSE "all_tests"
    /\ cur' = NoCall
    /\ RunLeave("none")
    /\ UNCHANGED <<callerArgs, supplied, toolVars, variant, env, all_ok, file, selfNo>>

----------------------------------------------------------------------------
(* gameopt_tests_cmdline_propsfile, props_tests_cmdline_propsfile *)

Opts == {"NT=t"}
PropLines == {"k=v"}

(* "jsettlers.gameopt." + opt *)
GameoptProp(opt) == CASE opt = "NT=t" -> "jsettlers.gameopt.NT=t"
                      [] OTHER -> "jsettlers.gameopt."

(* "-D" + p, as " -D".join(props_list) and split() leave it *)
DashD(p) == CASE p = "k=v" -> "-Dk=v"
              [] OTHER -> "-D"

DashDAll(props_list) == [i \in 1..Len(props_list) |-> DashD(props_list[i])]

(* the command line of a helper's first test *)
HelperFirstCmdline(d) ==
    IF d.kind = "gameopt" THEN <<"-o", d.opt>>
    ELSE d.cmdline \o DashDAll(d.props.lines)

(* the second test of a helper *)
HelperSecondCall(d) ==
    [should_startup |-> d.should,
     propsfile_contents |-> IF d.kind = "gameopt" THEN Props(<<GameoptProp(d.opt)>>)
                            ELSE d.props,
     expected_output_incl |-> d.exp]

HelperSecondCmdline(d) == IF d.kind = "gameopt" THEN <<>> ELSE d.cmdline

(* "if not props_list: raise ValueError" *)
HelperRejects(d) == d.kind = "props" /\ (d.props.none \/ d.props.lines = <<>>)

(* the second arg_test call of a helper *)
HelperSecond ==
    /\ hpc = "helper_second"
    /\ ArgTestBegin(helper.second.should_startup, helper.cmdline,
                    helper.second.propsfile_contents,
                    helper.second.expected_output_incl, log)
    /\ UNCHANGED <<callerArgs, supplied, prev, toolVars, variant, env, all_ok, tests_failed_count, helper, selfNo>>

----------------------------------------------------------------------------
(* all_tests: the declared test cases, one after the other *)

ExpDecls(v) ==
    {ExpNone, ExpStr(<<"a">>)} \cup
    (IF v = "unittest" THEN {ExpList(<< <<"a">>, <<"b">> >>)} ELSE {})

ArgDecls(v) ==
    [kind : {"arg_test"}, should : BOOLEAN, cmdline : {<<>>, <<"-t">>},
     props : {PropsNone}, exp : ExpDecls(v), opt : {"NT=t"}]
    \cup
    [kind : {"arg_test"}, should : BOOLEAN, cmdline : {<<>>},
     props : {Props(<<>>), Props(<<"k=v">>)}, exp : ExpDecls(v), opt : {"NT=t"}]

(* the helpers take a string (or None) as expected_output_incl *)
GameoptDecls ==
    [kind : {"gameopt"}, should : BOOLEAN, cmdline : {<<>>},
     props : {PropsNone}, exp : ExpDecls("script"), opt : Opts]

PropsDecls ==
    [kind : {"props"}, should : BOOLEAN, cmdline : {<<"--test-config">>},
     props : {PropsNone, Props(<<"k=v">>)}, exp : ExpDecls("script"), opt : {"NT=t"}]

Decls(v) == ArgDecls(v) \cup GameoptDecls \cup PropsDecls

(* a harness that declares its next case while one is still running *)
ReadyForNextCase_Overlapping == hpc \in {"all_tests", "arg_test"}

(* all_tests is a sequence of statements: the next case is declared when the
   statement before it has returned *)
ReadyForNextCase == hpc = "all_tests"

(* one statement of all_tests: the call of arg_test or of a helper that
   declares the case d *)
Declare(d) ==
    /\ LET lg == [log EXCEPT !.cases = @ + 1]
       IN  CASE d.kind = "arg_test" ->
                 /\ ArgTestBegin(d.should, d.cmdline, d.props, d.exp, lg)
                 /\ helper' = NoHelper
             [] HelperRejects(d) ->
                 /\ exc' = "ValueError"
                 /\ hpc' = "raised"
                 /\ log' = lg
                 /\ UNCHANGED <<file, cur, helper>>
                 /\ UNCHANGED <<desc, cmd, args, timeout, caller, rpc, wpc, res_obj,
                                rc, result, child, childCode, childOut, childErr,
                                sigterm, termCalls, graceDelays, childAtTimeout>>
             [] OTHER ->
                 /\ ArgTestBegin(d.should, HelperFirstCmdline(d), PropsNone,
                                 d.exp, lg)
                 /\ helper' = [kind |-> d.kind, second |-> HelperSecondCall(d),
                               cmdline |-> HelperSecondCmdline(d), rets |-> <<>>,
                               failedBefore |-> tests_failed_count]
    /\ UNCHANGED <<callerArgs, supplied, prev, toolVars, variant, env, all_ok, tests_failed_count, selfNo>>

(* one declared case of all_tests, whatever the case is *)
DeclareCase ==
    /\ ReadyForNextCase
    /\ log.cases < MaxCases
    /\ \E d \in Decls(variant) : Declare(d)

----------------------------------------------------------------------------
(* main, second part: cleanup() and the final status *)

(* a script that exits like the unittest variant, with 1 for any failure *)
FinalStatus_OneForAny(v, n) == IF n = 0 THEN 0 ELSE 1

(* the exit status of a run that reached the end of main: the script calls
   sys.exit(tests_failed_count) when the count is positive, the unittest
   variant asserts that the count is 0 *)
FinalStatus(v, n) ==
    IF v = "script" THEN (IF n > 0 THEN n % 256 ELSE 0)
    ELSE (IF n = 0 THEN 0 ELSE 1)

AllTestsDone ==
    /\ hpc = "all_tests"
    /\ RemoveFile([log EXCEPT !.finished = TRUE,
                                    !.status = Some(FinalStatus(variant, tests_failed_count))])
    /\ hpc' = "exited"
    /\ UNCHANGED runVars
    /\ UNCHANGED <<callerArgs, supplied, prev, toolVars, variant, env, all_ok, tests_failed_count, cur, helper, selfNo>>

(* an exception nothing catches leaves main: the interpreter (or the
   unittest runner) ends with status 1 *)
Propagating ==
    IF hpc = "raised" THEN TRUE
    ELSE IF hpc = "arg_test" THEN rpc = "raised"
    ELSE IF hpc = "selftest_wait" THEN rpc = "raised" /\ ~SelfCaught(selfNo)
    ELSE FALSE

Uncaught ==
    /\ Propagating
    /\ log' = [log EXCEPT !.status = Some(1)]
    /\ hpc' = "exited"
    /\ RunLeave(exc)
    /\ UNCHANGED <<callerArgs, supplied, prev, toolVars, variant, env, all_ok, file, tests_failed_count, cur, helper, selfNo>>

HarnessNext ==
    \/ EnvOkBegin
    \/ EnvOkEnd
    \/ MainEnvFail
    \/ MainSetup
    \/ SelftestCall
    \/ SelftestResult
    \/ DeclareCase
    \/ HelperSecond
    \/ ArgTestEnd
    \/ AllTestsDone
    \/ Uncaught

Envs ==
    [javaOnPath : BOOLEAN, startupDir : BOOLEAN, tempDir : BOOLEAN,
     propsIsFile : BOOLEAN,
     jar : BOOLEAN, port : {"refused", "connected", "error"}]

Init ==
    /\ IdleRun
    /\ variant \in {"script", "unittest"}
    /\ env \in Envs
    /\ variant = "script" => env.startupDir   \* the script does not look at it
    /\ hpc = "env_ok"
    /\ all_ok = TRUE
    /\ file \in {NoFile, [exists |-> TRUE, text |-> <<"old", NL>>]}
    /\ tests_failed_count = 0
    /\ cur = NoCall
    /\ helper = NoHelper
    /\ selfNo = 0
    /\ log = EmptyLog
    /\ callerArgs = <<>>
    /\ supplied = <<>>
    /\ prev = NoPrev
    /\ IdleTools

Next == HarnessNext \/ RunNext

Spec == Init /\ [][Next]_vars

----------------------------------------------------------------------------
(* Properties of _run_and_get_outputs, checked under SpecRun *)

(* C1: a call without a timeout (timeout = 0) never sends a termination
   signal, and when it returns, the exit code it returns is the child's real
   exit code (never None) and the returned stdout and stderr are everything
   the child wrote. *)
C1_NoTimeoutRealExitCode ==
    (rpc # "idle" /\ timeout = 0) =>
        /\ termCalls = 0
        /\ ~sigterm
        /\ rpc = "returned" =>
              /\ child = "exited"
              /\ ~result.rc.none
              /\ result.rc = childCode
              /\ result.stdout = childOut
              /\ result.stderr = childErr

(* a call without a timeout has returned a nonzero exit code and the output *)
C1_Witness ==
    /\ rpc = "returned"
    /\ timeout = 0
    /\ cmd = "java"
    /\ result.rc = Some(1)
    /\ result.stderr = VersionBanner

(* C2, as claimed: when the child was still running at the moment the
   timeout elapsed (its natural runtime is longer than the timeout), the call
   returns None as exit code, having sent the termination signal. *)
C2_LongerRuntimeGivesNone ==
    (rpc = "returned" /\ timeout # 0 /\ childAtTimeout = "running") =>
        (result.rc = None /\ termCalls = 1)

(* C3, as claimed: when the child has exited before the timeout elapses, the
   call returns the child's real exit code and its output, and terminate()
   is not called. *)
C3_ExitBeforeTimeoutGivesRealCode ==
    (rpc = "returned" /\ timeout # 0 /\ child = "exited"
        /\ childAtTimeout \in {"n/a", "exited"}) =>
        /\ result.rc = childCode
        /\ result.stdout = childOut
        /\ result.stderr = childErr
        /\ termCalls = 0

(* C4, as claimed: a call whose command the operating system could not
   launch (Popen raised OSError) never returns a result; it ends by raising
   OSError to its caller. *)
C4_LaunchFailureRaisesOSError ==
    (wpc = "died" /\ rpc \in {"returned", "raised"}) =>
        (rpc = "raised" /\ exc = "OSError")

----------------------------------------------------------------------------
(* The output check of arg_test on arbitrary captured text: arg_test is at
   the return of _run_and_get_outputs, with a list or a string as
   expected_output_incl *)

CheckChars == {"a", "b", NL}
CheckStrings == {<<>>, <<"a">>, <<"b">>, <<"a", "b">>}

(* the single strings looked for: with and without the space *)
CheckTexts == {<<"a">>, <<"a", "b">>, <<"a", SP, "b">>, <<"a", SP>>}

(* what expected_output_incl is in the calls whose output check is looked at *)
CheckExpected ==
    {ExpList(l) : l \in SeqsUpTo(CheckStrings, MaxExpLen)}
        \cup {ExpStr(s) : s \in CheckTexts}

InitCheck ==
    /\ variant = "unittest"
    /\ env = GoodEnv
    /\ hpc = "arg_test"
    /\ all_ok = TRUE
    /\ file = NoFile
    /\ tests_failed_count = 0
    /\ helper = NoHelper
    /\ selfNo = 0
    /\ log = [EmptyLog EXCEPT !.setup = TRUE, !.touched = TRUE, !.cases = 1,
                              !.calls = 1, !.runs = 1]
    /\ callerArgs = <<>>
    /\ supplied = <<>>
    /\ prev = NoPrev
    /\ \E e \in CheckExpected :
          cur = [should_startup |-> FALSE, propsfile_contents |-> PropsNone,
                 expected_output_incl |-> e]
    /\ cmd = "java"
    /\ args = PrepArgs("java", ServerArgs(<<>>))
    /\ timeout = MAX_TIMEOUT_SEC
    /\ caller = "arg_test"
    /\ rpc = "returned"
    /\ exc = "none"
    /\ \E out \in SeqsUpTo(CheckChars, MaxTextLen),
          err \in SeqsUpTo(CheckChars, MaxTextLen),
          code \in {None, Some(0), Some(1)} :
          /\ result = [rc |-> code, stdout |-> out, stderr |-> err]
          /\ res_obj = [stdout |-> out, stderr |-> err, exit_code |-> code,
                        proc |-> TRUE]
          /\ rc = code
          /\ childOut = out
          /\ childErr = err
          /\ childCode = code
          /\ wpc = IF code = None THEN "communicate" ELSE "done"
          /\ child = IF code = None THEN "running" ELSE "exited"
          /\ sigterm = (code = None)
          /\ termCalls = IF code = None THEN 1 ELSE 0
          /\ graceDelays = IF code = None THEN 1 ELSE 0
          /\ childAtTimeout = IF code = None THEN "running" ELSE "n/a"
    /\ desc = "none"
    /\ IdleTools

NextCheck == ArgTestEnd

SpecCheck == InitCheck /\ [][NextCheck]_vars

----------------------------------------------------------------------------
(* Properties of arg_test and of the harness *)

(* the step in which arg_test returns its result *)
ArgTestReturns == hpc = "arg_test" /\ hpc' \in {"all_tests", "helper_second"}

(* the lines of a captured stream *)
LinesOf(text) == SeqToSet(Split(text))

(* C5: a call of arg_test with should_startup = True and an
   expected_output_incl that is not None is always rejected with ValueError,
   and the rejecting step leaves the config file, the process runner, the
   printed result lines and tests_failed_count as they were; a two-test
   helper given that combination never reaches its second test. *)
C5_RejectedBeforeAnyEffect ==
    /\ [](hpc = "helper_second" =>
            ~(helper.second.should_startup
                /\ helper.second.expected_output_incl.kind # "none"))
    /\ [][(log'.calls = log.calls + 1
            /\ cur'.should_startup
            /\ cur'.expected_output_incl.kind # "none") =>
              /\ exc' = "ValueError"
              /\ hpc' = "raised"
              /\ file' = file
              /\ tests_failed_count' = tests_failed_count
              /\ rpc = "idle" /\ rpc' = "idle"
              /\ child' = "unborn" /\ wpc' = "none"
              /\ log'.runs = log.runs
              /\ log'.touched = log.touched
              /\ log'.okLines = log.okLines
              /\ log'.failLines = log.failLines]_vars

(* a helper was given the combination after an earlier case had written the
   config file: the call is rejected and the file is still there *)
C5_Witness ==
    /\ hpc = "raised"
    /\ exc = "ValueError"
    /\ cur.should_startup
    /\ cur.expected_output_incl.kind # "none"
    /\ helper.kind # "none"
    /\ file.exists
    /\ log.calls = 2
    /\ log.runs = 1

(* C6: arg_test returns True if and only if did_startup = should_startup,
   where did_startup says the exit code is None, and, when the process did
   not remain running and an expected output is given, the expected output
   is found; when the process remained running the expected output is not
   consulted. *)
C6_ReturnsTrueIff ==
    [][ArgTestReturns =>
          LET did == result.rc.none
              exp == cur.expected_output_incl
          IN  /\ log'.lastRet \in {"True", "False"}
              /\ (log'.lastRet = "True") <=>
                    /\ did = cur.should_startup
                    /\ (~did /\ exp.kind # "none") =>
                          OutputOk(exp, result.stdout, result.stderr)
              /\ did => ~log'.consulted]_vars

(* arg_test has returned False for a process that exited as it should have,
   because the expected output was missing *)
C6_Witness ==
    /\ hpc \in {"all_tests", "helper_second"}
    /\ log.lastRet = "False"
    /\ log.consulted

(* C7: with a list as expected_output_incl and a process that exited, the
   output check succeeds if and only if every string of the list is equal to
   a complete line of the captured stdout or of the captured stderr. *)
C7_ListCheckIffEveryStringIsALine ==
    [][(ArgTestReturns /\ cur.expected_output_incl.kind = "list"
            /\ ~result.rc.none /\ ~cur.should_startup) =>
          /\ log'.consulted
          /\ (log'.lastRet = "True") <=>
                \A s \in SeqToSet(cur.expected_output_incl.list) :
                    s \in LinesOf(result.stdout) \cup LinesOf(result.stderr)]_vars

(* arg_test has consulted a list for a process that exited, found one of its
   strings missing among the lines, and returned False *)
C7_Witness ==
    /\ hpc = "all_tests"
    /\ log.consulted
    /\ log.lastRet = "False"
    /\ log.calls = 1
    /\ variant = "unittest"

(* C8: tests_failed_count is the number of arg_test calls that returned
   False; a call that returns False adds exactly one and leaves the harness
   running, a call that returns True leaves the count alone, and the count
   never goes down. *)
C8_FailedCountIsNumberOfFalse ==
    /\ [](tests_failed_count = log.returnedFalse)
    /\ [][tests_failed_count' >= tests_failed_count]_vars
    /\ [][(ArgTestReturns /\ log'.lastRet = "False") =>
              (tests_failed_count' = tests_failed_count + 1
                  /\ log'.status = None)]_vars
    /\ [][(ArgTestReturns /\ log'.lastRet = "True") =>
              tests_failed_count' = tests_failed_count]_vars

(* a case has failed, and the next case has run and passed *)
C8_Witness ==
    /\ tests_failed_count = 1
    /\ log.failLines = 1
    /\ log.okLines = 1
    /\ log.lastRet = "True"

(* C9: a harness that ran to the end of main exits with 0 when no case
   failed, and otherwise with the count of failed cases (script) or with 1
   (unittest: the failed assertion); an exit status of 0 is only produced
   with a failure count of 0. *)
C9_ExitStatusReflectsFailures ==
    hpc = "exited" =>
        /\ ~log.status.none
        /\ log.status = Some(0) => (tests_failed_count = 0 /\ log.finished)
        /\ log.finished =>
              log.status = Some(IF tests_failed_count = 0 THEN 0
                                ELSE IF variant = "script" THEN tests_failed_count
                                ELSE 1)

(* the script has exited with a failure count of 2 *)
C9_Witness ==
    /\ hpc = "exited"
    /\ variant = "script"
    /\ log.finished
    /\ tests_failed_count = 2
    /\ log.status = Some(2)

(* C10: when env_ok() reports a problem, setup() is not called, the config
   file is neither written nor removed, arg_test is never called and no
   server process is launched, and the harness exits with status 1. *)
C10_EnvFailureAbortsEarly ==
    (hpc \in {"env_done", "exited"} /\ ~all_ok) =>
        /\ ~log.setup
        /\ ~log.touched
        /\ log.calls = 0
        /\ log.runs = 0
        /\ log.cases = 0
        /\ ~log.finished
        /\ hpc = "exited" => log.status = Some(1)

(* the harness has exited because a server was already listening *)
C10_Witness ==
    /\ hpc = "exited"
    /\ ~all_ok
    /\ env.port = "connected"
    /\ env.javaOnPath
    /\ log.status = Some(1)
    /\ file.exists

(* C11: while a test case's server is launched, jsserver.properties exists
   if and only if the case supplied propsfile_contents, and then holds
   exactly the supplied lines in order, each followed by a newline: nothing
   an earlier case (or an earlier run) wrote is left. *)
C11_FileIsWhatTheCaseSupplied ==
    hpc = "arg_test" =>
        LET props == cur.propsfile_contents
        IN  /\ file.exists = ~props.none
            /\ Len(file.text) = 2 * Len(props.lines)
            /\ \A i \in 1..Len(props.lines) :
                  /\ file.text[2 * i - 1] = props.lines[i]
                  /\ file.text[2 * i] = NL

(* the second test of the properties helper has launched its server, in the
   second declared case of the run: the file holds its one line *)
C11_Witness ==
    /\ hpc = "arg_test"
    /\ child = "running"
    /\ helper.kind = "props"
    /\ helper.rets # <<>>
    /\ cur.propsfile_contents = Props(<<"k=v">>)
    /\ file = [exists |-> TRUE, text |-> <<"k=v", NL>>]
    /\ log.cases = 2

(* C12: test cases run one at a time: an arg_test call begins only when no
   call of arg_test or of _run_and_get_outputs is in progress, the config
   file changes only between invocations, every earlier call has printed its
   result line when a server is launched, and the cases are taken one by one. *)
C12_OneCaseAtATime ==
    /\ [](hpc = "arg_test" => log.calls = log.okLines + log.failLines + 1)
    /\ [][log'.calls # log.calls =>
              (rpc = "idle" /\ cur = NoCall
                  /\ hpc \in {"all_tests", "helper_second"}
                  /\ log'.calls = log.calls + 1)]_vars
    /\ [][file' # file => rpc = "idle"]_vars
    /\ [][log'.cases \in {log.cases, log.cases + 1}]_vars

(* the second declared case is running its server after the first one has
   returned and printed its result *)
C12_Witness ==
    /\ hpc = "arg_test"
    /\ child = "running"
    /\ log.cases = 2
    /\ log.calls = 2
    /\ log.okLines + log.failLines = 1

(* C13, as claimed: when a call of _run_and_get_outputs with a timeout
   returns, its worker thread has finished. *)
C13_WorkerFinishedAtReturn ==
    (rpc = "returned" /\ timeout # 0) => WorkerFinished

(* C14: a call sends at most one terminate(); it sends it only from the
   timeout branch, after the timed join gave up and is_alive() found the
   worker alive; and a child only ever ends by itself or by SIGTERM. *)
C14_OnlyGracefulTimeoutCancellation ==
    /\ [](termCalls <= 1)
    /\ []((termCalls > 0 \/ sigterm) =>
            (timeout # 0 /\ childAtTimeout # "n/a"
                /\ rpc \in {"sleep", "return", "returned"}))
    /\ [](child = "exited" =>
            \/ childCode \in {Some(c) : c \in NaturalCodes(args)}
            \/ (sigterm /\ childCode = Some(SigTermCode)))
    /\ [][termCalls' # termCalls =>
              (rpc = "terminate" /\ childAtTimeout # "n/a"
                  /\ termCalls' = termCalls + 1)]_vars

(* a timed call has returned after its one terminate(), and the child was
   ended by the SIGTERM *)
C14_Witness ==
    /\ rpc = "returned"
    /\ termCalls = 1
    /\ sigterm
    /\ child = "exited"
    /\ childCode = Some(SigTermCode)

(* C16: a call that has requested termination takes exactly one grace
   delay and returns None as exit code, whatever the child has done and
   whatever the worker has recorded meanwhile; a call that found its worker
   finished takes no grace delay. *)
C16_OneGraceDelayThenNone ==
    /\ graceDelays <= termCalls
    /\ rpc \in {"return", "returned"} => graceDelays = termCalls
    /\ (rpc = "returned" /\ termCalls = 1) => result.rc = None
    /\ (rpc = "returned" /\ childAtTimeout = "n/a") => graceDelays = 0

(* the call has taken its grace delay and returned None, although the child
   has exited and the worker has recorded its exit code *)
C16_Witness ==
    /\ rpc = "returned"
    /\ termCalls = 1
    /\ graceDelays = 1
    /\ ~res_obj.exit_code.none
    /\ result.rc = None

(* C15, as claimed: once the timeout branch has sent its termination
   request, every process the child had started has received it. *)
C15_DescendantsAreSignalled ==
    (termCalls > 0 /\ desc # "none") => desc = "signalled"

(* C15, amended: the termination request goes to the child process alone:
   the terminate() step delivers SIGTERM to a child that is running and
   leaves the processes the child has started as they were, so that none of
   them is ever signalled by the harness. *)
C15_OnlyTheChildIsSignalled ==
    /\ [](desc # "signalled")
    /\ [][termCalls' # termCalls =>
              (desc' = desc /\ (child = "running" => sigterm'))]_vars

(* a shell was sent SIGTERM at the timeout and the call has returned, while
   the process the shell had started is running and was not signalled *)
C15_Witness ==
    /\ rpc = "returned"
    /\ cmd = "sh"
    /\ termCalls = 1
    /\ sigterm
    /\ desc = "running"

(* C17, as claimed: _run_and_get_outputs leaves the list its caller passed
   as it was, and a second run with that list launches the command line the
   first run launched. *)
C17_CallerArgsUnchanged ==
    /\ rpc = "returned" => callerArgs = supplied
    /\ caller = "again" => args = PrepArgs(cmd, supplied)

(* C20: an arg_test call that returns has printed exactly one verdict line,
   "-> ok" when it returns True and "-> FAIL" when it returns False; with
   the FAIL line it has printed the whole captured stdout and stderr, and
   the lines of propsfile_contents when the case supplied them. *)
C20_OneVerdictLineAndOutputOnFail ==
    [][ArgTestReturns =>
          LET p == log'.printed
          IN  /\ Len(p.verdictLines) = 1
              /\ log'.okLines + log'.failLines = log.okLines + log.failLines + 1
              /\ log'.lastRet = "True" =>
                    (p.verdictLines[1] = "-> ok" /\ log'.okLines = log.okLines + 1)
              /\ log'.lastRet = "False" =>
                    /\ p.verdictLines[1] = "-> FAIL"
                    /\ log'.failLines = log.failLines + 1
                    /\ p.stdout = Shown(result.stdout)
                    /\ p.stderr = Shown(result.stderr)
                    /\ ~cur.propsfile_contents.none =>
                          p.contents = Shown(cur.propsfile_contents.lines)]_vars

(* a case with a config file has failed: the FAIL line, both streams of the
   server (which differ) and the file's line were printed *)
C20_Witness ==
    /\ hpc = "all_tests"
    /\ log.lastRet = "False"
    /\ log.printed.verdictLines = <<"-> FAIL">>
    /\ log.printed.stdout = Shown(<<"a", NL>>)
    /\ log.printed.stderr = Shown(<<"b">>)
    /\ log.printed.contents = Shown(<<"k=v">>)

----------------------------------------------------------------------------
(* One test case run twice in succession, in the middle of all_tests: the
   second run repeats the first, or differs from it only in giving an empty
   list where the first gave no propsfile_contents (or the other way round) *)

(* the property lines the server finds in jsserver.properties *)
PropsSeen(f) == IF f.exists THEN SelectSeq(f.text, LAMBDA x : x # NL) ELSE <<>>

(* the test case that has no config file where d has an empty one *)
Twins(d) ==
    IF d.props = PropsNone THEN {[d EXCEPT !.props = Props(<<>>)]}
    ELSE IF d.props = Props(<<>>) THEN {[d EXCEPT !.props = PropsNone]}
    ELSE {}

(* what an earlier test case may have left in the temp directory *)
LeftFiles == {NoFile, [exists |-> TRUE, text |-> <<>>],
              [exists |-> TRUE, text |-> <<"old", NL>>]}

InitRepeat ==
    /\ IdleRun
    /\ variant \in {"script", "unittest"}
    /\ env = GoodEnv
    /\ hpc = "all_tests"
    /\ all_ok = TRUE
    /\ file \in LeftFiles
    /\ tests_failed_count = 0
    /\ cur = NoCall
    /\ helper = NoHelper
    /\ selfNo = 0
    /\ log = [EmptyLog EXCEPT !.setup = TRUE, !.touched = TRUE]
    /\ callerArgs = <<>>
    /\ supplied = <<>>
    /\ prev = NoPrev
    /\ IdleTools

RepeatCase ==
    /\ hpc = "all_tests"
    /\ prev.n < 2
    /\ \E d \in (IF prev.n = 0 THEN ArgDecls(variant)
                  ELSE {prev.decl} \cup Twins(prev.decl)) :
          /\ ArgTestBegin(d.should, d.cmdline, d.props, d.exp,
                          [log EXCEPT !.cases = @ + 1])
          /\ prev' = IF prev.n = 0 THEN [NoPrev EXCEPT !.n = 1, !.decl = d]
                     ELSE [prev EXCEPT !.n = 2]
    /\ helper' = NoHelper
    /\ UNCHANGED <<callerArgs, supplied, toolVars, variant, env, all_ok,
                   tests_failed_count, selfNo>>

(* _run_and_get_outputs as arg_test calls it: with a timeout, for a java
   that can be launched *)
TimedRunNext ==
    \/ Popen_ok
    \/ SetProc
    \/ Communicate
    \/ SetStderr
    \/ SetExitCode
    \/ ChildExits
    \/ ChildTerminated
    \/ JoinCompletes
    \/ JoinTimesOut
    \/ CheckAlive
    \/ Terminate
    \/ GraceDelay
    \/ Return

NextRepeat == RepeatCase \/ ArgTestEnd \/ Uncaught \/ TimedRunNext

SpecRepeat == InitRepeat /\ [][NextRepeat]_vars

(* the second run of a test case that is run twice returns *)
SecondRunReturns == ArgTestReturns /\ prev.n = 2

(* C18: when a test case is run a second time with the same parameters, the
   second run launches the command line the first run launched, with the
   config file as the first run had it, and for the same result of the
   server it classifies alike and returns the same verdict. *)
C18_SecondRunSameVerdict ==
    [][(SecondRunReturns /\ cur.propsfile_contents = prev.decl.props) =>
          /\ args = prev.args
          /\ file = prev.file
          /\ result = prev.result =>
                /\ DidStartup(result) = DidStartup(prev.result)
                /\ log'.lastRet = prev.ret]_vars

(* a case with a config file has failed twice on the same server output,
   although an earlier case had left a file behind *)
C18_Witness ==
    /\ prev.n = 2
    /\ hpc = "all_tests"
    /\ log.runs = 2
    /\ log.failLines = 2
    /\ prev.ret = "False"
    /\ prev.decl.props = Props(<<"k=v">>)
    /\ prev.file = [exists |-> TRUE, text |-> <<"k=v", NL>>]
    /\ prev.result.stdout = <<"a", NL>>

(* C19: a test case that gives an empty list as propsfile_contents and the
   same case without propsfile_contents launch the same command line, the
   server finds no property line in either, and for the same result of the
   server both return the same verdict. *)
C19_EmptyListIsLikeNoFile ==
    /\ []((hpc = "arg_test" /\ cur.propsfile_contents \in {PropsNone, Props(<<>>)})
            => PropsSeen(file) = <<>>)
    /\ [][(SecondRunReturns /\ cur.propsfile_contents # prev.decl.props) =>
              /\ args = prev.args
              /\ PropsSeen(file) = PropsSeen(prev.file)
              /\ result = prev.result => log'.lastRet = prev.ret]_vars

(* a case with an empty list has run after the same case without a list, in
   a directory where an earlier case had left a file: both passed *)
C19_Witness ==
    /\ prev.n = 2
    /\ hpc = "all_tests"
    /\ log.runs = 2
    /\ log.okLines = 2
    /\ prev.decl.props = PropsNone
    /\ ~prev.file.exists
    /\ file = [exists |-> TRUE, text |-> <<>>]

----------------------------------------------------------------------------
(* env_ok as a whole *)

(* C21, as claimed: env_ok returns True exactly when the temp directory
   exists, the config-file path is not a non-regular file, the server JAR
   is found, "java -version" exits 0 with a recognised version string and
   the connect probe is refused or fails; a successful connect makes it
   return False, and every failed check is reported *)
C21_FiveChecksDecide ==
    [][EnvOkEnd =>
         LET javaPassed ==
               /\ child = "exited"
               /\ childCode = Some(0)
               /\ \E i \in 1..Len(childErr) :
                     childErr[i] \in {"java version"}
                        \cup {b \in {"openjdk version"} : variant = "unittest"}
             failed ==
               {c \in {"startupDir"} : variant = "unittest" /\ ~env.startupDir}
                 \cup {c \in {"tempDir", "propsIsFile", "jar"} : ~env[c]}
                 \cup {c \in {"java"} : ~javaPassed}
                 \cup {c \in {"port"} : env.port # "refused"}
             passed ==
               /\ env.tempDir
               /\ env.propsIsFile
               /\ env.jar
               /\ javaPassed
               /\ env.port = "refused"
         IN  /\ all_ok' <=> passed
             /\ env.port = "connected" => ~all_ok'
             /\ log'.env = failed]_vars

(* C21, amended: env_ok returns True exactly when every check of the variant
   passes: those five and, in the unittest variant, the check that the
   current directory ends with EXPECTED_STARTUP_DIR; "java -version" passes
   when the child exits with 0 and has written a banner the regular
   expression of the variant finds, the connect probe passes when it raises
   IOError; a successful connect makes env_ok return False, and every check
   is evaluated and every failed check reported, whatever the earlier
   checks gave *)
C21_EveryCheckOfTheVariantDecides ==
    [][EnvOkEnd =>
         LET javaPassed ==
               /\ child = "exited"
               /\ childCode = Some(0)
               /\ \E i \in 1..Len(childErr) :
                     childErr[i] \in {"java version"}
                        \cup {b \in {"openjdk version"} : variant = "unittest"}
             failed ==
               {c \in {"startupDir"} : variant = "unittest" /\ ~env.startupDir}
                 \cup {c \in {"tempDir", "propsIsFile", "jar"} : ~env[c]}
                 \cup {c \in {"java"} : ~javaPassed}
                 \cup {c \in {"port"} : env.port # "refused"}
             passed ==
               /\ variant = "unittest" => env.startupDir
               /\ env.tempDir
               /\ env.propsIsFile
               /\ env.jar
               /\ javaPassed
               /\ env.port = "refused"
         IN  /\ all_ok' <=> passed
             /\ env.port = "connected" => ~all_ok'
             /\ log'.env = failed]_vars

(* the unittest variant was started in a wrong directory with a server
   already on the port: env_ok has returned False and has reported both the
   first check and the last, and nothing else *)
C21_Witness ==
    /\ hpc = "env_done"
    /\ variant = "unittest"
    /\ ~env.startupDir
    /\ env.port = "connected"
    /\ ~all_ok
    /\ log.env = {"startupDir", "port"}

----------------------------------------------------------------------------
(* render.py: src/src/main/bin/sql/template/render.py.  A file name and a
   template are sequences of pieces; "%", "s", "{" and "}" are pieces of
   their own, a token name and a token value are one piece each *)

known_dbtypes == {"mysql", "postgres", "sqlite"}

DB_TOKENS ==
    [d \in known_dbtypes |->
       CASE d = "mysql" ->
              [now |-> "now()", TIMESTAMP |-> "TIMESTAMP",
               TIMESTAMP_NULL |-> "TIMESTAMP NULL DEFAULT null",
               set_session_tz_utc |-> "SET TIME_ZONE='+0:00';"]
         [] d = "postgres" ->
              [now |-> "now()", TIMESTAMP |-> "TIMESTAMP WITHOUT TIME ZONE",
               TIMESTAMP_NULL |-> "TIMESTAMP WITHOUT TIME ZONE",
               set_session_tz_utc |-> "SET TIME ZONE 'UTC';"]
         [] OTHER ->
              [now |-> "strftime('%s000', 'now')", TIMESTAMP |-> "TIMESTAMP",
               TIMESTAMP_NULL |-> "TIMESTAMP",
               set_session_tz_utc |-> "-- reminder: sqlite has no session timezone setting"]]

(* str.replace(pat, val): every occurrence, from left to right *)
RECURSIVE ReplaceAll(_, _, _)
ReplaceAll(str, pat, val) ==
    IF Len(str) < Len(pat) THEN str
    ELSE IF SubSeq(str, 1, Len(pat)) = pat
         THEN val \o ReplaceAll(SubSeq(str, Len(pat) + 1, Len(str)), pat, val)
         ELSE <<str[1]>> \o ReplaceAll(Tail(str), pat, val)

(* setup_tokens(dbtype, infile_name): TOKENS afterwards.  The value of
   render_src is the name given with -i, or "(standard input)" for "-", or
   None (here <<>>) when no -i was given *)
setup_tokens(dbtype, infile_name) ==
    [t \in {"render_src"} \cup DOMAIN DB_TOKENS[dbtype] |->
       IF t # "render_src" THEN <<DB_TOKENS[dbtype][t]>>
       ELSE IF infile_name = <<"-">> THEN <<"(standard input)">>
       ELSE IF infile_name = <<>> THEN <<>>
       ELSE infile_name]

(* re.search("{{.+?}}", in_str, re.DOTALL) finds something *)
HasUnknownToken(str) ==
    \E i, j \in 1..Len(str) :
        /\ j >= i + 3 /\ j < Len(str)
        /\ str[i] = "{" /\ str[i + 1] = "{" /\ str[j] = "}" /\ str[j + 1] = "}"

RECURSIVE ReplaceTokens(_, _, _)
ReplaceTokens(str, TOKENS, toks) ==
    IF toks = {} THEN str
    ELSE LET tok == CHOOSE t \in toks : TRUE
         IN  ReplaceTokens(ReplaceAll(str, <<"{", "{", tok, "}", "}">>, TOKENS[tok]),
                           TOKENS, toks \ {tok})

(* render(in_str): the rendered string, or the exception raised.  replace()
   raises TypeError when the value of a token is None *)
render(in_str, TOKENS) ==
    IF \E t \in DOMAIN TOKENS : TOKENS[t] = <<>>
    THEN [err |-> "TypeError", text |-> <<>>]
    ELSE LET out_str == ReplaceTokens(in_str, TOKENS, DOMAIN TOKENS)
         IN  IF HasUnknownToken(out_str)
             THEN [err |-> "KeyError", text |-> <<>>]
             ELSE [err |-> "none", text |-> out_str]

(* the values getopt hands to parse_cmdline, one pair for an option; "-x"
   stands for anything getopt rejects and for a leftover argument *)
OptValues ==
    {<<"-i", <<"-">>>>, <<"-i", <<"t">>>>,
     <<"-o", <<"-">>>>, <<"-o", <<"o", "%", "s">>>>, <<"-o", <<"o", "%", "d">>>>,
     <<"-c", <<"-">>>>, <<"-c", <<"c", "%", "s">>>>,
     <<"-d", <<"mysql">>>>, <<"-d", <<"mysql", "sqlite">>>>,
     <<"-d", <<"bogus">>>>, <<"-d", <<"sqlite", "">>>>,
     <<"-h", <<>>>>, <<"-x", <<>>>>}

Templates ==
    {<<"a">>,
     <<"{", "{", "now", "}", "}">>,
     <<"a", "{", "{", "TIMESTAMP", "}", "}", "{", "{", "render_src", "}", "}">>,
     <<"{", "{", "zz", "}", "}">>,
     <<"{", "{", "now", "}", "}", "{", "{", "zz", "}", "}">>}

(* re.search(r'%[^s]', oVal) finds something *)
BadPercent(name) ==
    \E i \in 1..(Len(name) - 1) : name[i] = "%" /\ name[i + 1] # "s"

(* "for opt, oVal in opts", from option i on; st.exit is the status
   sys.exit was called with, if it was *)
RECURSIVE ParseOpts(_, _, _)
ParseOpts(os, i, st) ==
    IF i > Len(os) \/ st.exit # None THEN st
    ELSE LET o == os[i]
             dOk == st.all_ok /\ \A k \in 1..Len(o[2]) : o[2][k] \in known_dbtypes
             next ==
               CASE o[1] = "-i" -> [st EXCEPT !.infile = o[2]]
                 [] o[1] = "-o" -> [st EXCEPT !.outfile = o[2],
                                              !.all_ok = @ /\ ~BadPercent(o[2])]
                 [] o[1] = "-c" -> [st EXCEPT !.compfile = o[2],
                                              !.all_ok = @ /\ o[2] # <<"-">>
                                                           /\ ~BadPercent(o[2])]
                 [] o[1] = "-d" -> [st EXCEPT !.all_ok = dOk,
                                              !.dbtypes = IF dOk THEN o[2] ELSE @]
                 [] OTHER -> [st EXCEPT !.exit = Some(0)]
         IN  ParseOpts(os, i + 1, next)

(* parse_cmdline(): the globals it leaves and the status it exits with *)
parse_cmdline(os) ==
    LET st0 == [all_ok |-> TRUE, dbtypes |-> <<>>, infile |-> <<>>,
                outfile |-> <<>>, compfile |-> <<>>, exit |-> None]
    IN  IF \E i \in 1..Len(os) : os[i][1] = "-x"
        THEN [st0 EXCEPT !.exit = Some(2)]
        ELSE LET st == ParseOpts(os, 1, st0)
                 ok == /\ st.all_ok
                       /\ st.dbtypes # <<>>
                       /\ ~(st.compfile # <<>> /\ st.outfile # <<>>)
             IN  IF st.exit # None \/ ok THEN st
                 ELSE [st EXCEPT !.exit = Some(2)]

(* "parse_cmdline()  # exits if problems found" *)
ParseCmdline ==
    /\ render_pc = "parse"
    /\ LET st == parse_cmdline(opts)
       IN  /\ dbtypes' = st.dbtypes
           /\ infile' = st.infile
           /\ outfile' = st.outfile
           /\ compfile' = st.compfile
           /\ exit_status' = st.exit
           /\ render_pc' = IF st.exit = None THEN "loop" ELSE "exited"
    /\ UNCHANGED <<opts, sys_exit, world, opened, written, rendered>>
    /\ UNCHANGED <<runVars, startupVars, clientVars, escVars, tokVars>>

(* render_one(d, infile, outfile, compfile) for the next dbtype.  The file
   system decides whether infile and compfile can be read, whether the
   compfile holds the rendering and whether outfile can be written; "with
   file_in:" and "with file_out:" close sys.stdin and sys.stdout *)
RenderOne ==
    /\ render_pc = "loop"
    /\ Len(rendered) < Len(dbtypes)
    /\ \E readable, writable \in BOOLEAN, comp \in {"same", "differs", "missing"} :
         LET d == dbtypes[Len(rendered) + 1]
             out == ReplaceAll(outfile, <<"%", "s">>, <<d>>)
             cmp == ReplaceAll(compfile, <<"%", "s">>, <<d>>)
             fromStdin == infile \in {<<>>, <<"-">>}
             toStdout == out \in {<<>>, <<"-">>}
             readOk == IF fromStdin THEN world.stdin = "open" ELSE readable
             r == render(world.template, setup_tokens(d, infile))
             err == IF ~readOk THEN IF fromStdin THEN "ValueError" ELSE "IOError"
                    ELSE IF r.err # "none" THEN r.err
                    ELSE IF compfile # <<>>
                         THEN (IF comp = "missing" THEN "IOError"
                               ELSE IF comp = "differs" THEN "differs" ELSE "none")
                         ELSE IF toStdout
                              THEN (IF world.stdout = "open" THEN "none" ELSE "ValueError")
                              ELSE (IF writable THEN "none" ELSE "IOError")
             rendering == readOk /\ r.err = "none"
             writing == rendering /\ compfile = <<>>
         IN  /\ rendered' = Append(rendered, [dbtype |-> d, read |-> readOk,
                                               err |-> err])
             /\ sys_exit' = IF err = "none" THEN sys_exit ELSE 1
             /\ world' = [world EXCEPT
                            !.stdin = IF fromStdin THEN "closed" ELSE @,
                            !.stdout = IF writing /\ toStdout THEN "closed" ELSE @]
             /\ opened' = opened
                   \cup {n \in {IF fromStdin THEN <<"(stdin)">> ELSE infile} : readOk}
                   \cup {n \in {cmp} : rendering /\ compfile # <<>> /\ comp # "missing"}
                   \cup {n \in {IF toStdout THEN <<"(stdout)">> ELSE out} :
                            writing /\ err = "none"}
             /\ written' = written
                   \cup {w \in {<<IF toStdout THEN <<"(stdout)">> ELSE out, r.text>>} :
                            writing /\ err = "none"}
    /\ UNCHANGED <<render_pc, opts, dbtypes, infile, outfile, compfile, exit_status>>
    /\ UNCHANGED <<runVars, startupVars, clientVars, escVars, tokVars>>

(* "sys.exit(sys_exit)" after the loop over dbtypes *)
RenderExit ==
    /\ render_pc = "loop"
    /\ Len(rendered) = Len(dbtypes)
    /\ exit_status' = Some(sys_exit)
    /\ render_pc' = "exited"
    /\ UNCHANGED <<opts, dbtypes, infile, outfile, compfile, sys_exit, world,
                   opened, written, rendered>>
    /\ UNCHANGED <<runVars, startupVars, clientVars, escVars, tokVars>>

InitRender ==
    /\ IdleClient
    /\ IdleEscape
    /\ IdleTokens
    /\ render_pc = "parse"
    /\ opts \in SeqsUpTo(OptValues, MaxOpts)
    /\ dbtypes = <<>> /\ infile = <<>> /\ outfile = <<>> /\ compfile = <<>>
    /\ sys_exit = 0
    /\ world \in {[stdin |-> "open", stdout |-> "open", template |-> t] : t \in Templates}
    /\ opened = {} /\ written = {} /\ rendered = <<>>
    /\ exit_status = None

RenderNext == ParseCmdline \/ RenderOne \/ RenderExit

(* C22, as claimed: render.py ends with 2 when there are problems with the
   command line, and then no file has been read, rendered or written;
   otherwise every requested dbtype has been processed, and it ends with 1
   if render_one failed for any of them and with 0 if for none.  A problem
   is something getopt rejects, a bad value of an option that stands before
   the first -h or, when no help is asked for, a missing -d or -o used with
   -c.  A command line that asks for help and has no problem before that
   may end with 0 and nothing done. *)
C22_ExitStatusTellsWhatHappened ==
    LET n == Len(opts)
        helpAsked == \E i \in 1..n : opts[i][1] = "-h"
        problemSeen ==
          \/ \E i \in 1..n : opts[i][1] = "-x"
          \/ \E i \in 1..n :
                /\ \A j \in 1..i : opts[j][1] # "-h"
                /\ \/ /\ opts[i][1] = "-d"
                      /\ \E k \in 1..Len(opts[i][2]) :
                            opts[i][2][k] \notin {"mysql", "postgres", "sqlite"}
                   \/ /\ opts[i][1] \in {"-o", "-c"}
                      /\ \E k \in 1..(Len(opts[i][2]) - 1) :
                            opts[i][2][k] = "%" /\ opts[i][2][k + 1] # "s"
                   \/ opts[i] = <<"-c", <<"-">>>>
        problemAtEnd ==
          \/ \A i \in 1..n : opts[i][1] # "-d"
          \/ \E i, j \in 1..n : opts[i][1] = "-o" /\ opts[j][1] = "-c"
    IN  render_pc = "exited" =>
          IF problemSeen \/ (~helpAsked /\ problemAtEnd)
          THEN exit_status = Some(2) /\ opened = {} /\ written = {} /\ rendered = <<>>
          ELSE IF helpAsked
          THEN exit_status = Some(0) /\ opened = {} /\ written = {} /\ rendered = <<>>
          ELSE /\ \E i \in 1..n :
                    /\ opts[i][1] = "-d"
                    /\ \A j \in (i + 1)..n : opts[j][1] # "-d"
                    /\ Len(rendered) = Len(opts[i][2])
                    /\ \A k \in 1..Len(rendered) : rendered[k].dbtype = opts[i][2][k]
               /\ exit_status =
                    IF \E k \in 1..Len(rendered) : rendered[k].err # "none"
                    THEN Some(1) ELSE Some(0)

(* C23, as claimed: run without -i for one dbtype, in output mode, with a
   template on standard input whose tokens are all known (it has none but
   those of DB_TOKENS and render_src) and an output that can be written, render.py renders the template to the output and ends
   with status 0. *)
C23_DefaultInfileIsStdin ==
    (/\ render_pc = "exited"
     /\ \A i \in 1..Len(opts) : opts[i][1] # "-i"
     /\ Len(rendered) = 1
     /\ compfile = <<>>
     /\ \A k \in 1..Len(world.template) : world.template[k] # "zz"
     /\ rendered[1].err # "IOError")
      => /\ exit_status = Some(0)
         /\ rendered[1].err = "none"
         /\ written # {}

(* C24, as claimed: when render_one has read a template with an unknown
   token, render raises KeyError, no output is opened or written and
   sys_exit becomes 1; when all its tokens are known, render does not raise,
   and what is written has the value of DB_TOKENS for the dbtype in the
   place of every token. *)
C24_RenderReplacesOrRaisesKeyError ==
    [][(RenderOne /\ rendered'[Len(rendered')].read) =>
         LET last == rendered'[Len(rendered')]
         IN  IF \A k \in 1..Len(world.template) : world.template[k] # "zz"
             THEN /\ last.err \notin {"KeyError", "TypeError"}
                  /\ \A w \in written' \ written :
                        /\ \A k \in 1..Len(w[2]) : w[2][k] # "{" /\ w[2][k] # "}"
                        /\ \A k \in 1..Len(world.template) :
                              world.template[k] \in DOMAIN DB_TOKENS[last.dbtype]
                                 => \E m \in 1..Len(w[2]) :
                                       w[2][m] = DB_TOKENS[last.dbtype][world.template[k]]
             ELSE /\ last.err = "KeyError"
                  /\ written' = written
                  /\ opened' \ opened \subseteq {infile, <<"(stdin)">>}
                  /\ sys_exit' = 1]_vars

----------------------------------------------------------------------------
(* DummyProtoClient: src/src/main/python/soc/robot/dummy_proto_client.py.
   The server's bytes are numbers; a message on the wire is the varint of
   its length and then its bytes.  What protobuf makes of the bytes is not
   part of the client: here the first byte of a message says which field of
   FromServer is set (1 vers, 2 games, 3 ga_new, 4 bot_join_req), a second
   byte 1 says that the game in it is joinable, 9 is something
   ParseFromString rejects, and no byte at all is a FromServer with no
   field set *)

Frames ==
    {<<0>>, <<1, 1>>, <<2, 2, 1>>, <<2, 2, 0>>, <<2, 3, 1>>, <<1, 4>>, <<1, 9>>,
     <<129, 0, 1>>}

(* the byte streams a server may send before the connection ends: up to n
   messages, the last of them possibly cut short *)
RECURSIVE Streams(_)
Streams(n) ==
    IF n = 0 THEN {<<>>}
    ELSE LET shorter == Streams(n - 1)
         IN  shorter \cup UNION {{b \o SubSeq(f, 1, k) : k \in 1..Len(f)} :
                                    b \in shorter, f \in Frames}

(* _read_raw_varint32 and decoder._DecodeVarint: the number of bytes of the
   varint that starts at byte i (0 if the bytes end before it does), and
   its value *)
RECURSIVE VarintLen(_, _)
VarintLen(bytes, i) ==
    IF i > Len(bytes) THEN 0
    ELSE IF bytes[i] < 128 THEN 1
    ELSE IF VarintLen(bytes, i + 1) = 0 THEN 0
    ELSE 1 + VarintLen(bytes, i + 1)

RECURSIVE DecodeVarint(_, _)
DecodeVarint(bytes, i) ==
    IF bytes[i] < 128 THEN bytes[i]
    ELSE (bytes[i] % 128) + 128 * DecodeVarint(bytes, i + 1)

NoMsg == [who |-> "none", data |-> <<>>]

(* read_delimited_message() on the stream str: how it ends (ret), the
   message it returns and the bytes left.  When the bytes run out, recv
   gives b'' at end of file, or raises (a socket error, or ^C is pressed);
   "spin" is the loop "while rCount < size" at end of file, where recv gives
   b'' again and again *)
read_delimited_message(str) ==
    LET n == VarintLen(str.bytes, 1)
        size == DecodeVarint(str.bytes, 1)
        ranOut == CASE str.end = "eof" -> "None"
                    [] str.end = "error" -> "Exception"
                    [] OTHER -> "KeyboardInterrupt"
        data == SubSeq(str.bytes, n + 1, n + size)
        rest == SubSeq(str.bytes, n + size + 1, Len(str.bytes))
    IN  IF n = 0 THEN [ret |-> ranOut, msg |-> NoMsg, rest |-> <<>>]
        ELSE IF Len(str.bytes) - n < size
        THEN [ret |-> IF str.end = "eof" THEN "spin" ELSE ranOut,
              msg |-> NoMsg, rest |-> <<>>]
        ELSE IF size = 0 THEN [ret |-> "None", msg |-> NoMsg, rest |-> rest]
        ELSE IF data[1] = 9 THEN [ret |-> "Exception", msg |-> NoMsg, rest |-> rest]
        ELSE [ret |-> "msg", msg |-> [who |-> "server", data |-> data], rest |-> rest]

(* a client that asks to join whatever its mode and its connected flag *)
request_join_game_Unguarded(conn, obs) == <<"ga_join">>

(* request_join_game(ga_name): what it writes to the socket; it raises
   AssertionError, and writes nothing, unless connected and in Observer Mode *)
request_join_game(conn, obs) == IF conn /\ obs THEN <<"ga_join">> ELSE <<>>

(* treat(m): what it writes to the socket and the connected flag it leaves.
   _treat_games and _treat_new_game ask to join a joinable game,
   _treat_bot_join_req calls disconnect(), the other treaters print *)
treat(m, conn, obs) ==
    IF m.who # "server" THEN [sends |-> <<>>, connected |-> conn]
    ELSE IF m.data[1] \in {2, 3} /\ Len(m.data) > 1 /\ m.data[2] = 1
    THEN [sends |-> request_join_game(conn, obs), connected |-> conn]
    ELSE IF m.data[1] = 4
    THEN [sends |-> IF conn THEN <<"leave_all">> ELSE <<>>, connected |-> FALSE]
    ELSE [sends |-> <<>>, connected |-> conn]

(* auth_and_run() up to its receive loop: the version message and the
   auth_req or im_a_robot message are sent; msg is the second of them *)
AuthAndRun ==
    /\ client_pc = "new"
    /\ connected' = TRUE
    /\ sent' = <<"vers", IF is_observer THEN "auth_req" ELSE "im_a_robot">>
    /\ msg' = [who |-> "client", data |-> <<>>]
    /\ client_pc' = "loop"
    /\ UNCHANGED <<is_observer, stream, treated, last_read>>
    /\ UNCHANGED <<runVars, startupVars, renderVars, escVars, tokVars>>

(* one turn of "while self.connected": the read, the two except clauses,
   then treat(msg) or, when msg is None, disconnect(False).  Only the
   KeyboardInterrupt clause clears msg *)
ReceiveLoop ==
    /\ client_pc = "loop"
    /\ connected
    /\ LET r == read_delimited_message(stream)
           m == CASE r.ret \in {"msg", "None"} -> r.msg
                  [] r.ret = "KeyboardInterrupt" -> NoMsg
                  [] OTHER -> msg
           conn == r.ret \in {"msg", "None"}
           t == treat(m, conn, is_observer)
       IN  /\ r.ret # "spin"
           /\ last_read' = r.ret
           /\ stream' = [stream EXCEPT !.bytes = r.rest]
           /\ msg' = m
           /\ treated' = IF m = NoMsg THEN treated
                         ELSE Append(treated, [who |-> m.who, data |-> m.data,
                                               fresh |-> r.ret = "msg"])
           /\ connected' = IF m = NoMsg THEN FALSE ELSE t.connected
           /\ sent' = sent
                \o (IF r.ret = "KeyboardInterrupt" THEN <<"leave_all">> ELSE <<>>)
                \o (IF m = NoMsg THEN <<>> ELSE t.sends)
    /\ UNCHANGED <<client_pc, is_observer>>
    /\ UNCHANGED <<runVars, startupVars, renderVars, escVars, tokVars>>

(* "while rCount < size: data = self.sock.recv(size - rCount)" at end of
   file, inside a message: recv returns b'' and the loop goes round *)
RecvAtEof ==
    /\ client_pc = "loop"
    /\ connected
    /\ read_delimited_message(stream).ret = "spin"
    /\ last_read' = "spin"
    /\ UNCHANGED <<client_pc, is_observer, connected, msg, stream, sent, treated>>
    /\ UNCHANGED <<runVars, startupVars, renderVars, escVars, tokVars>>

(* the loop ends, auth_and_run returns, main calls cli.close() *)
ClientClose ==
    /\ client_pc = "loop"
    /\ ~connected
    /\ client_pc' = "closed"
    /\ UNCHANGED <<is_observer, connected, msg, stream, sent, treated, last_read>>
    /\ UNCHANGED <<runVars, startupVars, renderVars, escVars, tokVars>>

(* DummyProtoClient(srv, port, cookie, is_observer) has connected *)
InitClient ==
    /\ IdleRender
    /\ IdleEscape
    /\ IdleTokens
    /\ client_pc = "new"
    /\ is_observer \in BOOLEAN
    /\ connected = FALSE
    /\ msg = NoMsg
    /\ stream \in [bytes : Streams(MaxMsgs), end : {"eof", "error", "interrupt"}]
    /\ sent = <<>>
    /\ treated = <<>>
    /\ last_read = "none"

ClientNext == AuthAndRun \/ ReceiveLoop \/ RecvAtEof \/ ClientClose

----------------------------------------------------------------------------
(* test_props_escaped.py: check_missing_escape.  A string is a sequence of
   characters; "0" stands for the digits and "a" for every character that
   is neither a digit, a single-quote nor an open curly brace.  Positions
   are counted from 0 as python counts them, so the character at position
   p of s is s[p + 1]. *)

EscChars == {"'", "{", "0", "a"}

(* re.search('{\d', s): the starts of the matches *)
ArgStarts(s) ==
    {p \in 0..(Len(s) - 2) : s[p + 1] = "{" /\ s[p + 2] = "0"}

(* re.search("(^'[^'{])|([^']'[^'{])", s): the starts of the matches *)
QuoteStarts(s) ==
    {p \in 0..(Len(s) - 2) :
        \/ p = 0 /\ s[1] = "'" /\ s[2] \notin {"'", "{"}
        \/ /\ p + 3 <= Len(s)
           /\ s[p + 1] # "'"
           /\ s[p + 2] = "'"
           /\ s[p + 3] \notin {"'", "{"}}

(* re.search("([^']\{\D)|([^']\{)$", s): the starts of the matches *)
BraceStarts(s) ==
    {p \in 0..(Len(s) - 2) :
        /\ s[p + 1] # "'"
        /\ s[p + 2] = "{"
        /\ (p + 2 = Len(s) \/ s[p + 3] # "0")}

(* m.start() of re.search: the leftmost start *)
Leftmost(S) == CHOOSE p \in S : \A q \in S : p <= q

check_missing_escape(s) ==
    IF ArgStarts(s) = {} THEN -1
    ELSE IF QuoteStarts(s) # {}
         THEN LET pos == Leftmost(QuoteStarts(s))
              IN  IF s[pos + 1] # "'" THEN pos + 1 ELSE pos
    ELSE IF BraceStarts(s) # {} THEN Leftmost(BraceStarts(s))
    ELSE -1

CheckMissingEscape ==
    /\ esc_pc = "call"
    /\ idx' = check_missing_escape(localized_str)
    /\ esc_pc' = "returned"
    /\ UNCHANGED <<runVars, startupVars, renderVars, clientVars, tokVars, localized_str>>

InitEscape ==
    /\ IdleRender
    /\ IdleClient
    /\ IdleTokens
    /\ esc_pc = "call"
    /\ localized_str \in SeqsUpTo(EscChars, MaxStrLen)
    /\ idx = -1

----------------------------------------------------------------------------
(* The tools of the repository, each run on its own *)

InitTools ==
    /\ IdleRun
    /\ IdleHarness
    /\ env = GoodEnv
    /\ InitRender \/ InitClient \/ InitEscape

NextTools == RenderNext \/ ClientNext \/ CheckMissingEscape

SpecTools == InitTools /\ [][NextTools]_vars

(* C25, as claimed: in a turn of the receive loop, read_delimited_message
   returns the parsed message when the bytes received begin with a whole
   length-delimited message that ParseFromString accepts, and returns None
   only when the bytes have run out at end of file; and the turn leaves the
   client connected after such a message, unless the message is the
   BotJoinGameRequest at which _treat_bot_join_req disconnects *)
C25_NoneOnlyAtEof ==
    [][ReceiveLoop =>
         LET n == VarintLen(stream.bytes, 1)
             size == DecodeVarint(stream.bytes, 1)
             whole == n > 0 /\ Len(stream.bytes) >= n + size
             payload == SubSeq(stream.bytes, n + 1, n + size)
             accepted == whole /\ (size = 0 \/ payload[1] # 9)
         IN  /\ last_read' = "None" => (~whole /\ stream.end = "eof")
             /\ accepted => /\ last_read' = "msg"
                            /\ msg' = [who |-> "server", data |-> payload]
                            /\ connected' \/ payload[1] = 4]_vars

(* C26: a ga_join message is written to the socket only in a turn of the
   receive loop in which the client is in Observer Mode and the read has
   returned a message, so that the connected flag is still True when the
   treater asks to join; a client in Bot Mode never sends one, and after a
   failed read, when the flag is False and the message of the turn before
   is treated again, none is sent *)
C26_JoinOnlyWhenConnectedObserver ==
    /\ [](~is_observer => \A i \in 1..Len(sent) : sent[i] # "ga_join")
    /\ [][(\E i \in (Len(sent) + 1)..Len(sent') : sent'[i] = "ga_join")
             => (is_observer /\ connected /\ last_read' = "msg")]_vars
    /\ [][(ReceiveLoop /\ last_read' \in {"Exception", "KeyboardInterrupt"})
             => \A i \in (Len(sent) + 1)..Len(sent') : sent'[i] # "ga_join"]_vars

(* an observer was sent the list of games with a joinable game and asked to
   join it; the next read failed, the client disconnected and treated the
   list of games once more, and did not ask again *)
C26_Witness ==
    /\ client_pc = "closed"
    /\ is_observer
    /\ last_read = "Exception"
    /\ Len(treated) = 2
    /\ treated[1] = [who |-> "server", data |-> <<2, 1>>, fresh |-> TRUE]
    /\ treated[2] = [who |-> "server", data |-> <<2, 1>>, fresh |-> FALSE]
    /\ sent = <<"vers", "auth_req", "ga_join">>

(* C27, as claimed: check_missing_escape(s) returns -1 when s has no
   positional argument, an open curly brace followed by a digit; otherwise
   it returns -1 or the position in s of a single-quote or open curly brace
   that is missing its escape character: the position of that character
   itself, with no such quote or brace to the left of it *)
C27_PositionOfLeftmostOffender ==
    esc_pc = "returned" =>
        LET s == localized_str
            quotes == {p \in 0..(Len(s) - 1) :
                          /\ s[p + 1] = "'"
                          /\ p + 2 <= Len(s) /\ s[p + 2] \notin {"'", "{"}
                          /\ (p = 0 \/ s[p] # "'")}
            braces == {p \in 1..(Len(s) - 1) :
                          /\ s[p + 1] = "{"
                          /\ (p + 1 = Len(s) \/ s[p + 2] # "0")
                          /\ s[p] # "'"}
        IN  /\ ArgStarts(s) = {} => idx = -1
            /\ idx # -1 => /\ idx \in quotes \cup braces
                           /\ \A q \in quotes \cup braces : idx <= q

(* C28: a two-test helper first runs the command-line test, with no
   jsserver.properties file; whatever that test returns, the next thing the
   harness does is the helper's second test, with the file written; when
   the second test returns the helper returns True iff both tests returned
   True, and tests_failed_count has grown by one for each of the two that
   returned False *)
C28_HelpersRunBothTests ==
    /\ [][(DeclareCase /\ helper'.kind # "none")
             => (hpc' = "arg_test" => /\ cur'.propsfile_contents = PropsNone
                                      /\ file' = NoFile)]_vars
    /\ [][(ArgTestEnd /\ helper.kind # "none" /\ helper.rets = <<>>)
             => /\ hpc' = "helper_second"
                /\ helper'.rets = <<log'.lastRet = "True">>]_vars
    /\ [][hpc = "helper_second"
             => /\ hpc' = "arg_test"
                /\ cur' = helper.second
                /\ ~cur'.propsfile_contents.none
                /\ file' = FileAfter(cur'.propsfile_contents) /\ file'.exists
                /\ log'.runs = log.runs + 1]_vars
    /\ [][(ArgTestEnd /\ helper.kind # "none" /\ helper.rets # <<>>)
             => LET first == helper.rets[1]
                    second == log'.lastRet = "True"
                IN  /\ hpc' = "all_tests"
                    /\ log'.helperRet = "True" <=> (first /\ second)
                    /\ log'.helperRet \in {"True", "False"}
                    /\ tests_failed_count' = helper.failedBefore
                                               + (IF first THEN 0 ELSE 1)
                                               + (IF second THEN 0 ELSE 1)]_vars

(* the only case of the run was a helper whose command-line test failed and
   whose config-file test then ran and passed: the helper returned False and
   one failure was counted *)
C28_Witness ==
    /\ hpc = "all_tests"
    /\ log.cases = 1
    /\ log.runs = 2
    /\ log.helperRet = "False"
    /\ log.lastRet = "True"
    /\ file.exists
    /\ tests_failed_count = 1

----------------------------------------------------------------------------
(* all_tests as it is written: its statements in their order.  A statement
   is held by what the harness does with it: its kind, should_startup,
   whether there is a command line, how many lines the properties list has
   and the form of expected_output_incl; the option and property names and
   the expected texts are the ones of the model. *)

AllTests(v) ==
    LET Case(k, should, cmdline, props, exp) ==
            [kind |-> k, should |-> should, cmdline |-> cmdline, props |-> props,
             exp |-> exp, opt |-> "NT=t"]
        str == ExpStr(<<"a">>)
        list == ExpList(<< <<"a">>, <<"b">> >>)
        one == Props(<<"k=v">>)
        two == Props(<<"k=v", "k=v">>)
        plain == Case("arg_test", TRUE, <<>>, PropsNone, ExpNone)      \* (True, "", None)
        bad == Case("arg_test", FALSE, <<"-t">>, PropsNone, str)       \* (False, "...", None, "...")
        runs1 == Case("arg_test", TRUE, <<>>, one, ExpNone)            \* (True, "", [p])
        runs2 == Case("arg_test", TRUE, <<>>, two, ExpNone)            \* (True, "", [p, q])
        runsArg == Case("arg_test", TRUE, <<"-t">>, PropsNone, ExpNone) \* (True, "...", None, None)
        badFile1 == Case("arg_test", FALSE, <<>>, one, str)            \* (False, "", [p], "...")
        badFile2 == Case("arg_test", FALSE, <<>>, two, str)            \* (False, "", [p, q], "...")
        badFileL == Case("arg_test", FALSE, <<>>, two, list)           \* (False, "", [p, q], [..])
        gameopt == Case("gameopt", FALSE, <<>>, PropsNone, str)
        props == Case("props", FALSE, <<"--test-config">>, two, str)
    IN  IF v = "unittest"
        THEN << plain, bad, bad, bad, bad, bad, runs1, runs2,
                bad, badFileL, badFileL, bad, badFile1,
                gameopt, bad, bad, gameopt, gameopt, gameopt,
                bad, bad, bad, runsArg, gameopt, gameopt, bad,
                bad, bad, badFile1, props, props, props, props >>
        ELSE << plain, bad, bad, bad, bad, bad, runs1, runs2,
                bad, badFile2, bad, badFile1,
                gameopt, bad, bad, gameopt, gameopt, gameopt,
                bad, gameopt, gameopt, bad >>

(* the next statement of all_tests *)
NextStatement ==
    /\ ReadyForNextCase
    /\ log.cases < Len(AllTests(variant))
    /\ Declare(AllTests(variant)[log.cases + 1])

(* "return (0 == tests_failed_count)", then cleanup() and the final status *)
AllTestsReturn ==
    /\ log.cases = Len(AllTests(variant))
    /\ AllTestsDone

(* main from all_tests() on, in a good environment and after setup() *)
InitAllTests ==
    /\ InitRepeat
    /\ file = NoFile

NextAllTests ==
    \/ NextStatement
    \/ HelperSecond
    \/ ArgTestEnd
    \/ AllTestsReturn
    \/ Uncaught
    \/ TimedRunNext

SpecAllTests == InitAllTests /\ [][NextAllTests]_vars

(* C29, as claimed: no statement of all_tests combines should_startup = True
   with an expected output or gives a helper an empty property list, no
   ValueError is raised, and the run of main ends with every statement of
   all_tests executed, by cleanup(), with no jsserver.properties left *)
C29_EveryDeclaredCaseIsExecuted ==
    /\ \A i \in 1..Len(AllTests(variant)) :
           LET d == AllTests(variant)[i]
           IN  ~Rejects(d.should, d.exp) /\ ~HelperRejects(d)
    /\ exc # "ValueError"
    /\ hpc = "exited" => /\ log.finished
                         /\ log.cases = Len(AllTests(variant))
                         /\ ~file.exists

(* C30, as claimed: a run of the harness that ends with status 0 has printed
   no FAIL line: none from arg_test and none from the print_result calls of
   test_run_and_get_outputs *)
C30_EveryFailLineIsInTheStatus ==
    (hpc = "exited" /\ log.status = Some(0))
        => (log.failLines = 0 /\ ~log.selfFail)

(* C31, as claimed: when the caller of a call with a timeout is about to
   call res_obj.proc.terminate(), the worker thread has stored the process
   handle in res_obj.proc; and a call with a timeout never ends with an
   exception, the OSError of terminate() being caught *)
C31_HandleRecordedBeforeTerminate ==
    /\ rpc = "terminate" => res_obj.proc
    /\ timeout # 0 => (exc = "none" /\ rpc # "raised")

(* C32, as claimed: when expected_output_incl is a single string and the
   process has exited, the output check succeeds only if the string occurs
   within the captured stdout or within the captured stderr; a text that
   exists only across the end of stdout and the start of stderr does not
   satisfy it *)
C32_StringWithinOneStream ==
    [][(ArgTestReturns /\ cur.expected_output_incl.kind = "str"
            /\ ~result.rc.none /\ ~cur.should_startup
            /\ log'.lastRet = "True") =>
          \/ IsSubstring(cur.expected_output_incl.str, result.stdout)
          \/ IsSubstring(cur.expected_output_incl.str, result.stderr)]_vars

----------------------------------------------------------------------------
(* A DummyProtoClient as it runs: the interpreter goes on executing the
   statement it is at, and the receive loop has no other thread to wait
   for, so a client that can take a step takes one *)

InitClientRun ==
    /\ IdleRun
    /\ IdleHarness
    /\ env = GoodEnv
    /\ InitClient

SpecClientFair ==
    InitClientRun /\ [][ClientNext]_vars /\ WF_vars(ClientNext)

(* C33, as claimed: when the server closes the connection after the bytes
   it has sent, whether the bytes end between two messages, inside a length
   varint or inside a message, auth_and_run comes to its end: the read in
   progress returns, the connected flag becomes False, the loop is left *)
C33_ReceiveLoopEndsAtEof ==
    (client_pc = "new" /\ stream.end = "eof")
        ~> (client_pc = "closed" /\ ~connected /\ last_read # "spin")

(* C34, as claimed: every message given to treat() is a message of the
   server that the read of the same turn of the receive loop has just
   returned, so that no message is treated twice and the client's own
   messages never are; and in a turn whose read fails with an exception
   nothing is given to treat() *)
C34_TreatOnlyWhatWasJustRead ==
    /\ [](\A i \in 1..Len(treated) :
             treated[i].who = "server" /\ treated[i].fresh)
    /\ [][(ReceiveLoop /\ last_read' \in {"Exception", "KeyboardInterrupt"})
             => treated' = treated]_vars
    /\ [][(ReceiveLoop /\ treated' # treated)
             => /\ last_read' = "msg"
                /\ Len(treated') = Len(treated) + 1]_vars

----------------------------------------------------------------------------
(* test_token_consistency.py: check_java_token_values_vs_py.  A line of the
   java file is held as f_line.strip() leaves it; the lines below are one
   of every kind the parser tells apart. *)

Marker ==
    [decl |-> "// TOKEN DECLARATION LIST -- test_token_consistency.py",
     begin |-> "// BEGIN COMPARISON AREA -- test_token_consistency.py",
     end |-> "// END COMPARISON AREA -- test_token_consistency.py"]

LineKinds ==
    {"", "// x", Marker.decl, Marker.begin, Marker.end,
     "private static String a, b;", "private static String a;",
     "switch(dbType)", "{", "}", "default:", "case DBTYPE_MYSQL:", "break;",
     "// fallthrough", "a = \"v\";", "x"}

(* f_line.startswith("//") *)
IsComment(l) ==
    l \in {"// x", Marker.decl, Marker.begin, Marker.end, "// fallthrough"}

(* the body of the while loop from "if not len(f_line)" on, for the line l
   and the locals s; brk says the loop is left by "break" *)
parse_line(l, s) ==
    LET print_err == [s EXCEPT !.java_all_ok = FALSE,
                               !.reported = @ \cup {"Parse error within COMPARISON AREA"}]
        report(m) == [s EXCEPT !.java_all_ok = FALSE, !.reported = @ \cup {m}]
    IN  IF l = "" THEN s
        ELSE IF ~s.saw.begin_line
        THEN IF s.state = "decl"
             THEN IF IsComment(l) THEN s
                  ELSE IF l = "private static String a, b;"
                       THEN [s EXCEPT !.state = ""]
                       ELSE print_err
             ELSE IF l = Marker.decl
                  THEN [s EXCEPT !.saw.decl_line = TRUE, !.state = "decl"]
             ELSE IF l = Marker.begin
                  THEN [s EXCEPT !.saw.begin_line = TRUE, !.state = "switch",
                                 !.java_all_ok = s.saw.decl_line,
                                 !.reported = IF s.saw.decl_line THEN @
                                              ELSE @ \cup {"Missing TOKEN DECLARATION LIST"}]
             ELSE s
        ELSE IF l = Marker.end
        THEN IF ~s.saw.all_expected THEN report("END COMPARISON AREA too early")
             ELSE [s EXCEPT !.brk = TRUE]
        ELSE IF IsComment(l) /\ l # "// fallthrough" THEN s
        ELSE CASE s.state = "switch" ->
                    IF l = "switch(dbType)" THEN [s EXCEPT !.state = "{"]
                    ELSE print_err
               [] s.state = "{" ->
                    IF l = "{" THEN [s EXCEPT !.state = "case"] ELSE s
               [] s.state = "case" ->
                    IF l = "}"
                    THEN [s EXCEPT !.state = "end", !.saw.all_expected = TRUE]
                    ELSE IF l = "default:"
                    THEN [s EXCEPT !.state = "caseline",
                                   !.token_dbtype_vals = @ \cup {"default"}]
                    ELSE IF l = "case DBTYPE_MYSQL:"
                    THEN [s EXCEPT !.state = "caseline",
                                   !.token_dbtype_vals = @ \cup {"mysql"}]
                    ELSE print_err
               [] s.state = "caseline" ->
                    IF l \in {"break;", "// fallthrough"}
                    THEN [s EXCEPT !.state = "case"]
                    ELSE IF l = "a = \"v\";" THEN s
                    ELSE print_err
               [] s.state = "end" -> print_err
               [] OTHER -> s

(* one turn of "while java_all_ok and (f_line is not None)": readline()
   gives the next line, or '' at end of file (never None), line_num is
   counted, the line is parsed.  line_num is counted as far as MaxEofReads
   past the end of the file. *)
ReadLine ==
    /\ tok_pc = "loop"
    /\ java_all_ok
    /\ LET f_line == IF line_num < Len(java_src) THEN java_src[line_num + 1] ELSE ""
           s == parse_line(f_line,
                           [state |-> state, saw |-> saw, java_all_ok |-> java_all_ok,
                            token_dbtype_vals |-> token_dbtype_vals,
                            reported |-> reported, brk |-> FALSE])
       IN  /\ line_num' = IF line_num < Len(java_src) + MaxEofReads
                          THEN line_num + 1 ELSE line_num
           /\ state' = s.state
           /\ saw' = s.saw
           /\ java_all_ok' = s.java_all_ok
           /\ token_dbtype_vals' = s.token_dbtype_vals
           /\ reported' = s.reported
           /\ tok_pc' = IF s.brk THEN "after" ELSE "loop"
    /\ UNCHANGED <<java_src, tok_ret>>
    /\ UNCHANGED <<runVars, startupVars, renderVars, clientVars, escVars>>

(* the loop condition is false: java_all_ok has been set to False *)
LoopExit ==
    /\ tok_pc = "loop"
    /\ ~java_all_ok
    /\ tok_pc' = "after"
    /\ UNCHANGED <<java_src, line_num, state, saw, java_all_ok,
                   token_dbtype_vals, reported, tok_ret>>
    /\ UNCHANGED <<runVars, startupVars, renderVars, clientVars, escVars>>

(* past the loop: the missing BEGIN marker is reported and False returned
   after a parse error; otherwise the dbtypes found are compared with
   render.py.  With no case parsed the default case is missing and False is
   returned; with a case parsed the loop over the dbtypes reads
   render.DBTYPES_FALLTHROUGH_ONLY, which render.py does not define *)
AfterLoop ==
    /\ tok_pc = "after"
    /\ reported' = reported
            \cup (IF saw.begin_line THEN {} ELSE {"Missing BEGIN COMPARISON AREA"})
            \cup (IF java_all_ok /\ saw.begin_line /\ "default" \notin token_dbtype_vals
                  THEN {"switch(dbType) missing default case"} ELSE {})
            \cup (IF java_all_ok /\ saw.begin_line /\ "default" \in token_dbtype_vals
                     /\ Cardinality(token_dbtype_vals) < 3
                  THEN {"switch(dbType) should have at least 2 dbTypes + default"}
                  ELSE {})
    /\ java_all_ok' = /\ java_all_ok
                      /\ saw.begin_line
                      /\ "default" \in token_dbtype_vals
                      /\ Cardinality(token_dbtype_vals) >= 3
    /\ tok_ret' = IF java_all_ok /\ saw.begin_line /\ token_dbtype_vals # {}
                  THEN "AttributeError" ELSE "False"
    /\ tok_pc' = "returned"
    /\ UNCHANGED <<java_src, line_num, state, saw, token_dbtype_vals>>
    /\ UNCHANGED <<runVars, startupVars, renderVars, clientVars, escVars>>

(* the beginnings of the java files given to the check: nothing, the token
   declaration, the comparison area opened, and two cases parsed *)
FileHeads ==
    LET decl == <<Marker.decl, "private static String a, b;">>
        open == decl \o <<Marker.begin, "switch(dbType)", "{">>
    IN  {<<>>, decl, open,
         open \o <<"case DBTYPE_MYSQL:", "a = \"v\";", "break;",
                   "default:", "a = \"v\";", "break;">>}

(* check_java_token_values_vs_py(dbh_java_fullpath) has opened the file *)
InitTokens ==
    /\ IdleRun
    /\ IdleHarness
    /\ env = GoodEnv
    /\ IdleRender
    /\ IdleClient
    /\ IdleEscape
    /\ tok_pc = "loop"
    /\ java_src \in {h \o l : h \in FileHeads, l \in SeqsUpTo(LineKinds, MaxLines)}
    /\ line_num = 0
    /\ state = ""
    /\ saw = [decl_line |-> FALSE, begin_line |-> FALSE, all_expected |-> FALSE]
    /\ java_all_ok = TRUE
    /\ token_dbtype_vals = {}
    /\ reported = {}
    /\ tok_ret = "none"

TokensNext == ReadLine \/ LoopExit \/ AfterLoop

(* the interpreter goes on executing the loop it is in *)
SpecTokensFair == InitTokens /\ [][TokensNext]_vars /\ WF_vars(TokensNext)

(* C35, as claimed: every call of check_java_token_values_vs_py returns: the
   reading stops at the END COMPARISON AREA marker or at the end of the
   file; and a call on a file in which no BEGIN COMPARISON AREA marker was
   seen reports the missing marker and returns False *)
C35_ReadingStops ==
    /\ (tok_pc = "loop") ~> (tok_pc = "returned")
    /\ []((tok_pc = "returned" /\ ~saw.begin_line)
             => /\ tok_ret = "False"
                /\ "Missing BEGIN COMPARISON AREA" \in reported)


=============================================================================
